---- MODULE Spec2Model ----
(***************************************************************************)
(* Multi-source reconciliation engine of the token listing tool:           *)
(*   - PriceSelector          (src/src/calculator/price_selector.py)       *)
(*   - DEX stabilization      (src/src/providers/price/flipside_provider.py*)
(*                             src/src/providers/dex/flipside_sql_provider.py) *)
(*                                                                         *)
(* Numbers.  Python floats are modelled by exact integer arithmetic:       *)
(*   - candle prices are integers in a fixed price unit;                   *)
(*   - a ReferencePrice carries price_usd as a numerator over PriceScale   *)
(*     (the OHLC average divides by 4), so price_usd = 4 * open for the    *)
(*     earliest-open method;                                               *)
(*   - every comparison of a quotient is cross-multiplied (denominators    *)
(*     are positive wherever the code divides).                            *)
(* Timestamps are minutes.  Python None is the empty tuple, a present      *)
(* optional value x is <<x>>.                                              *)
(***************************************************************************)
EXTENDS Integers, Sequences, FiniteSets, TLC

VARIABLES
    listings,           \* exchange listings collected for PriceSelector
    coingecko_listing,  \* the fallback argument of the last select_with_fallback
    method,             \* the method argument of the last call (optional)
    result,             \* the value the last call returned (optional ReferencePrice)
    op,                 \* the last operation: "collect", "select", "select_with_fallback"
    hourly_prices,      \* DexHourlyPrice rows parsed for detect_stabilization
    swaps,              \* DEXSwapData rows get_dex_swaps_hourly returned
    min_dex_count,      \* the min_dex_count argument of the last DEX call
    dex_result,         \* the value the last DEX call returned (optional)
    dex_op,             \* "collect", "detect_stabilization", "find_stabilization_hour"
    reference_price,    \* price_usd of the ReferencePrice given to ValuationCalculator
    supply_data,        \* the SupplyData given to it
    fundraising_data,   \* the optional FundraisingData given to it
    manual,             \* the manual overrides of the last call
    valuation,          \* what the last valuation call returned
    formula_args,       \* the arguments of the last call of a helper formula
    formula_result,     \* what it returned, or the exception it raised
    val_op,             \* "idle", "ready", "calculate", ...
    rules,              \* AllocationMapper.rules, in registration order
    source_overrides,   \* AllocationMapper.source_overrides
    _compiled_patterns, \* AllocationMapper._compiled_patterns
    raw_allocations,    \* raw allocations gathered for map_allocations
    label_arg,          \* the label of the last map_label
    source_arg,         \* its source
    map_result,         \* what it returned
    allocation_data,    \* what the last map_allocations returned
    map_op,             \* "new", "ready", "map_label", "map_allocations"
    percentage_threshold,  \* ConflictDetector.percentage_threshold
    total_allocation_min,  \* ConflictDetector.total_allocation_min
    total_allocation_max,  \* ConflictDetector.total_allocation_max
    bucket_map_arg,     \* the bucket_map argument of the last detect_conflicts
    conflicts,          \* what the last detect_conflicts returned
    issues,             \* what the last detect_total_issues returned
    conflict_arg,       \* the conflict given to the last suggest_resolution
    preferred_arg,      \* its preferred_sources argument
    suggestion,         \* what it returned
    conf_op,            \* "new", "ready", "detect_conflicts", ...
    vest_data,          \* the dictionary given to VestingParser.parse_dict (optional)
    vest_terms,         \* what parse_dict returned
    vest_op,            \* "collect", "parse_dict"
    provider_audit_entries,  \* each provider's _audit_entries
    _audit_entries,     \* TokenListingOrchestrator._audit_entries
    _quality_flags,     \* TokenListingOrchestrator._quality_flags
    results,            \* the results list of analyze_batch
    responses,          \* what the remote services answered during the last analyze
    calls,              \* analyze calls made so far
    orch_op             \* "idle", "analyze_batch", "analyzed", "skipped"

selvars == <<listings, coingecko_listing, method, result, op>>
dexvars == <<hourly_prices, swaps, min_dex_count, dex_result, dex_op>>
valvars == <<reference_price, supply_data, fundraising_data, manual, valuation,
             formula_args, formula_result, val_op>>
mapvars == <<rules, source_overrides, _compiled_patterns, raw_allocations, label_arg,
             source_arg, map_result, allocation_data, map_op>>
confvars == <<percentage_threshold, total_allocation_min, total_allocation_max,
              bucket_map_arg, conflicts, issues, conflict_arg, preferred_arg,
              suggestion, conf_op>>
vestvars == <<vest_data, vest_terms, vest_op>>
orchvars == <<provider_audit_entries, _audit_entries, _quality_flags, results,
              responses, calls, orch_op>>
latevars == <<vestvars, orchvars>>
extvars == <<confvars, latevars>>
vars == <<selvars, dexvars, valvars, mapvars, extvars>>

None == <<>>
Some(x) == <<x>>

Abs(x) == IF x < 0 THEN -x ELSE x
Min2(a, b) == IF a <= b THEN a ELSE b

RECURSIVE SumSeq(_)
SumSeq(s) == IF s = <<>> THEN 0 ELSE Head(s) + SumSeq(Tail(s))

\* Python truthiness of an optional number: None and 0 are falsy.
TruthyNum(o) == o # None /\ o[1] # 0

\* Python comparison of key tuples of equal length: a < b, lexicographic.
LexLess(a, b) ==
    \E i \in 1..Len(a) :
        /\ a[i] < b[i]
        /\ \A j \in 1..(i - 1) : a[j] = b[j]

\* The list s rearranged: position n takes s[perm[n]].
Rearranged(s, perm) == [n \in 1..Len(s) |-> s[perm[n]]]

\* The sorted index list t with index i inserted after every index whose key
\* is not greater (equal keys keep their order).
InsertIndex(t, i, keys) ==
    LET k == Cardinality({j \in 1..Len(t) : ~LexLess(keys[i], keys[t[j]])})
    IN  SubSeq(t, 1, k) \o <<i>> \o SubSeq(t, k + 1, Len(t))

RECURSIVE SortedIndices(_, _)
SortedIndices(keys, n) ==
    IF n = 0 THEN <<>> ELSE InsertIndex(SortedIndices(keys, n - 1), n, keys)

\* list.sort(key=...): a stable sort; keys[i] is the key tuple of s[i].
StableSort(s, keys) == Rearranged(s, SortedIndices(keys, Len(s)))

(***************************************************************************)
(* Configuration of PriceSelector.__init__ (defaults).                     *)
(***************************************************************************)
min_volume_usd == 1000
max_price_deviation_pct == 50
self_method == "earliest_open"
PriceScale == 4
OneHour == 60
DefaultReliability == 50
HighReliability == 90
AgreementPct == 5
TopN == 5
MinForOutliers == 3

PriceSelectionMethod ==
    {"earliest_open", "earliest_close", "first_hour_vwap", "first_day_vwap", "manual"}

\* str.lower() / str.upper() on the strings the model uses.
Lower(s) ==
    CASE s = "Binance" -> "binance"
      [] s = "OKX" -> "okx"
      [] OTHER -> s

Upper(s) ==
    CASE s = "usdt" -> "USDT"
      [] s = "usdc" -> "USDC"
      [] s = "btc" -> "BTC"
      [] OTHER -> s

EXCHANGE_RELIABILITY ==
    [e \in {"binance", "coinbase", "okx", "kraken", "bybit", "kucoin", "gateio",
            "htx", "coingecko"} |->
        CASE e = "binance" -> 100
          [] e = "coinbase" -> 95
          [] e = "okx" -> 90
          [] e = "kraken" -> 90
          [] e = "bybit" -> 85
          [] e = "kucoin" -> 80
          [] e = "gateio" -> 75
          [] e = "htx" -> 70
          [] e = "coingecko" -> 50]

StableQuotes == {"USDT", "USDC", "USD", "BUSD", "DAI", "TUSD"}

\* ExchangeCandle.is_valid
is_valid(c) ==
    /\ c.open > 0
    /\ c.high > 0
    /\ c.low > 0
    /\ c.close > 0
    /\ c.high >= c.low

\* ExchangeListing.has_data
has_data(l) == l.first_candle # None /\ l.error = None

\* A trading pair is kept as the result of pair.split("/"): one segment when the
\* string holds no "/".
_is_stablecoin_pair(pair) ==
    LET quote == IF Len(pair) > 1 THEN Upper(pair[Len(pair)]) ELSE ""
    IN  quote \in StableQuotes

_get_exchange_reliability(exchange) ==
    IF Lower(exchange) \in DOMAIN EXCHANGE_RELIABILITY
    THEN EXCHANGE_RELIABILITY[Lower(exchange)]
    ELSE DefaultReliability

\* The volume check of _filter_valid_listings: TRUE when the listing is skipped.
BelowMinVolume(c) ==
    TruthyNum(c.volume_usd) /\ c.volume_usd[1] < min_volume_usd

\* One iteration of the loop of _filter_valid_listings: TRUE when appended.
PassesFilter(l) ==
    /\ ~(~has_data(l) \/ l.first_candle = None)
    /\ is_valid(l.first_candle[1])
    /\ ~BelowMinVolume(l.first_candle[1])

_filter_valid_listings(ls) == SelectSeq(ls, PassesFilter)

OpenOf(l) == l.first_candle[1].open
TimestampOf(l) == l.first_candle[1].timestamp

Opens(ls) == [i \in 1..Len(ls) |-> OpenOf(ls[i])]

\* Twice the median of a non-empty list of prices (the even case halves a sum).
Median2(prices) ==
    LET sorted_prices == StableSort(prices, [i \in 1..Len(prices) |-> <<prices[i]>>])
        mid == Len(sorted_prices) \div 2
    IN  IF Len(sorted_prices) % 2 = 0
        THEN sorted_prices[mid] + sorted_prices[mid + 1]
        ELSE 2 * sorted_prices[mid + 1]

\* Mutant of WithinDeviation: the deviation is signed (abs forgotten), so a
\* price far below the median is never an outlier.
WithinDeviation_Signed(price, median2) ==
    (2 * price - median2) * 100 <= max_price_deviation_pct * median2

\* abs(price - median) / median * 100 <= max_price_deviation_pct
WithinDeviation(price, median2) ==
    Abs(2 * price - median2) * 100 <= max_price_deviation_pct * median2

\* The list `filtered` built by the loop of _filter_outliers.
OutlierFiltered(ls) ==
    LET median2 == Median2(Opens(ls))
    IN  SelectSeq(ls, LAMBDA l : WithinDeviation(OpenOf(l), median2))

_filter_outliers(ls) ==
    IF Len(ls) < MinForOutliers THEN ls
    ELSE IF OutlierFiltered(ls) # <<>> THEN OutlierFiltered(ls) ELSE ls

\* TRUE when _filter_outliers returned its argument itself (the same list
\* object), so that the in-place sort of select also reorders valid_listings.
ReturnsSameList(ls) ==
    Len(ls) < MinForOutliers \/ OutlierFiltered(ls) = <<>>

\* price_usd as a numerator over PriceScale.
_get_price_from_candle(candle, m) ==
    CASE m = "earliest_open" -> PriceScale * candle.open
      [] m = "earliest_close" -> PriceScale * candle.close
      [] m \in {"first_hour_vwap", "first_day_vwap"} ->
            candle.open + candle.high + candle.low + candle.close
      [] OTHER -> PriceScale * candle.open

\* Mutant of ranking_key: reliability ranked ascending (the minus sign dropped).
ranking_key_ReliabilityAscending(l) ==
    <<TimestampOf(l),
      IF _is_stablecoin_pair(l.trading_pair) THEN -1 ELSE 0,
      _get_exchange_reliability(l.exchange)>>

ranking_key(l) ==
    <<TimestampOf(l),
      IF _is_stablecoin_pair(l.trading_pair) THEN -1 ELSE 0,
      -_get_exchange_reliability(l.exchange)>>

SortByTimestamp(ls) ==
    StableSort(ls, [i \in 1..Len(ls) |-> <<TimestampOf(ls[i])>>])

Candidates(sorted) ==
    SelectSeq(sorted, LAMBDA l : TimestampOf(l) <= TimestampOf(sorted[1]) + OneHour)

\* Mutant of RankCandidates: venue reliability ranked ahead of the timestamp.
RankCandidates_ReliabilityFirst(candidates) ==
    IF Len(candidates) > 1
    THEN StableSort(candidates,
             [i \in 1..Len(candidates) |->
                 <<-_get_exchange_reliability(candidates[i].exchange),
                   TimestampOf(candidates[i])>>])
    ELSE candidates

RankCandidates(candidates) ==
    IF Len(candidates) > 1
    THEN StableSort(candidates, [i \in 1..Len(candidates) |-> ranking_key(candidates[i])])
    ELSE candidates

\* abs(price - avg_price) / avg_price * 100 < 5, avg_price = sum(prices) / len(prices)
AgreesWithAverage(price, prices) ==
    Abs(price * Len(prices) - PriceScale * SumSeq(prices)) * 100
        < AgreementPct * PriceScale * SumSeq(prices)

Confidence(valid_listings, selected, price) ==
    IF Len(valid_listings) >= 3
    THEN IF AgreesWithAverage(price,
                Opens(SubSeq(valid_listings, 1, Min2(TopN, Len(valid_listings)))))
         THEN "high" ELSE "medium"
    ELSE IF _get_exchange_reliability(selected.exchange) >= HighReliability
         THEN "high" ELSE "medium"

\* "; ".join(notes_parts)
SelectNotes(valid_listings, selected, candidates) ==
    "Selected from " \o ToString(Len(valid_listings)) \o " valid listings"
    \o "; Earliest listing: " \o selected.exchange
    \o (IF Len(candidates) > 1
        THEN "; Tied with " \o ToString(Len(candidates) - 1)
                 \o " other exchange(s) within 1h"
        ELSE "")

\* PriceSelector.select(listings, method)
select(ls, m_arg) ==
    LET m == IF m_arg # None THEN m_arg[1] ELSE self_method
        valid0 == _filter_valid_listings(ls)
    IN  IF valid0 = <<>> THEN None
        ELSE
          LET filtered_listings == SortByTimestamp(_filter_outliers(valid0))
              valid_listings == IF ReturnsSameList(valid0)
                                THEN filtered_listings ELSE valid0
              candidates == RankCandidates(Candidates(filtered_listings))
              selected == candidates[1]
              candle == selected.first_candle[1]
              price == _get_price_from_candle(candle, m)
          IN  Some([price_usd |-> price,
                    timestamp |-> candle.timestamp,
                    method |-> m,
                    source_exchange |-> selected.exchange,
                    source_pair |-> selected.trading_pair,
                    confidence |-> Confidence(valid_listings, selected, price),
                    notes |-> SelectNotes(valid_listings, selected, candidates)])

FallbackNotes == "Fallback to CoinGecko daily data; exchange data unavailable"

\* Mutant of select_with_fallback: the fallback price keeps the listing's own
\* venue name and the default confidence of ReferencePrice.
select_with_fallback_AsListed(ls, cg, m_arg) ==
    LET res == select(ls, m_arg)
        m == IF m_arg # None THEN m_arg[1] ELSE self_method
    IN  IF res # None THEN res
        ELSE IF cg # None /\ has_data(cg[1])
        THEN LET candle == cg[1].first_candle[1]
             IN  Some([price_usd |-> _get_price_from_candle(candle, m),
                       timestamp |-> candle.timestamp,
                       method |-> m,
                       source_exchange |-> cg[1].exchange,
                       source_pair |-> cg[1].trading_pair,
                       confidence |-> "medium",
                       notes |-> FallbackNotes])
        ELSE None

\* PriceSelector.select_with_fallback(exchange_listings, coingecko_listing, method)
select_with_fallback(ls, cg, m_arg) ==
    LET res == select(ls, m_arg)
        m == IF m_arg # None THEN m_arg[1] ELSE self_method
    IN  IF res # None THEN res
        ELSE IF cg # None /\ has_data(cg[1])
        THEN LET candle == cg[1].first_candle[1]
             IN  Some([price_usd |-> _get_price_from_candle(candle, m),
                       timestamp |-> candle.timestamp,
                       method |-> m,
                       source_exchange |-> "coingecko",
                       source_pair |-> cg[1].trading_pair,
                       confidence |-> "low",
                       notes |-> FallbackNotes])
        ELSE None

(***************************************************************************)
(* Inputs.                                                                 *)
(***************************************************************************)
MaxListings == 4

Candle(ts, o, h, l, c, vol) ==
    [timestamp |-> ts, open |-> o, high |-> h, low |-> l, close |-> c,
     volume_usd |-> vol]

Listing(ex, pair, candle, err) ==
    [exchange |-> ex, trading_pair |-> pair, first_candle |-> candle, error |-> err]

\* The exchange listings the callers may hand to the selector: venues of
\* reliability 100, 95, 90, 90, 85 and an unlisted one (50); stablecoin and BTC
\* quotes; timestamps at, on the edge of and past the one-hour window; volumes
\* absent, zero, below, at and above the minimum; an invalid candle
\* (high < low) and a failed fetch.
ListingUniverse ==
    { Listing("Binance", <<"TKN", "USDT">>, Some(Candle(0, 40, 44, 36, 42, None)), None),
      Listing("okx", <<"TKN", "usdt">>, Some(Candle(0, 41, 41, 39, 40, Some(1000))), None),
      Listing("mexc", <<"TKN", "USDC">>, Some(Candle(0, 50, 52, 50, 51, Some(5000))), None),
      Listing("kraken", <<"TKN", "USDT">>, Some(Candle(0, 400, 400, 300, 350, None)), None),
      Listing("Binance", <<"TKN", "BTC">>, Some(Candle(60, 400, 420, 400, 410, None)), None),
      Listing("coinbase", <<"TKN", "USD">>, Some(Candle(61, 40, 40, 40, 40, Some(999))), None),
      Listing("bybit", <<"TKN", "USDT">>, Some(Candle(61, 41, 43, 40, 42, Some(0))), None),
      Listing("gateio", <<"TKNUSDT">>, Some(Candle(30, 41, 40, 41, 41, None)), None),
      Listing("htx", <<"TKN", "USDT">>, Some(Candle(0, 40, 40, 40, 40, None)), Some("timeout")) }

FallbackUniverse ==
    { None,
      Some(Listing("coingecko", <<"TKN", "USD">>, Some(Candle(0, 45, 45, 45, 45, None)), None)),
      Some(Listing("cg_daily", <<"TKN", "USD">>, Some(Candle(0, 0, 50, 0, 48, None)), None)),
      Some(Listing("coingecko", <<"TKN", "USD">>, None, Some("404"))) }

MethodArgs == {None, Some("earliest_close"), Some("first_hour_vwap")}

Init ==
    /\ listings = <<>>
    /\ coingecko_listing = None
    /\ method = None
    /\ result = None
    /\ op = "collect"
    /\ hourly_prices = <<>>
    /\ swaps = <<>>
    /\ min_dex_count = 0
    /\ dex_result = None
    /\ dex_op = "collect"
    /\ reference_price = 0
    /\ supply_data = None
    /\ fundraising_data = None
    /\ manual = None
    /\ valuation = None
    /\ formula_args = None
    /\ formula_result = None
    /\ val_op = "idle"
    /\ rules = <<>>
    /\ source_overrides = <<>>
    /\ _compiled_patterns = <<>>
    /\ raw_allocations = <<>>
    /\ label_arg = <<>>
    /\ source_arg = "unknown"
    /\ map_result = None
    /\ allocation_data = None
    /\ map_op = "new"
    /\ percentage_threshold = 0
    /\ total_allocation_min = 0
    /\ total_allocation_max = 0
    /\ bucket_map_arg = None
    /\ conflicts = None
    /\ issues = None
    /\ conflict_arg = None
    /\ preferred_arg = None
    /\ suggestion = None
    /\ conf_op = "new"
    /\ vest_data = Some(<<>>)
    /\ vest_terms = None
    /\ vest_op = "collect"
    /\ provider_audit_entries =
          [ccxt_provider |-> <<>>, coingecko_price |-> <<>>, supply_provider |-> <<>>,
           fundraising_provider |-> <<>>, allocation_provider |-> <<>>]
    /\ _audit_entries = <<>>
    /\ _quality_flags = <<>>
    /\ results = <<>>
    /\ responses = None
    /\ calls = 0
    /\ orch_op = "idle"

\* The caller gathers one more exchange listing before selection; a venue's
\* pair is fetched once, so no listing occurs twice.
AddListing ==
    /\ op = "collect"
    /\ Len(listings) < MaxListings
    /\ \E l \in ListingUniverse :
          /\ \A i \in 1..Len(listings) : listings[i] # l
          /\ listings' = Append(listings, l)
    /\ UNCHANGED <<coingecko_listing, method, result, op, dexvars, valvars, mapvars, extvars>>

Select ==
    /\ op = "collect"
    /\ \E m \in MethodArgs :
          /\ method' = m
          /\ result' = select(listings, m)
    /\ op' = "select"
    /\ UNCHANGED <<listings, coingecko_listing, dexvars, valvars, mapvars, extvars>>

SelectWithFallback ==
    /\ op = "collect"
    /\ \E m \in MethodArgs, cg \in FallbackUniverse :
          /\ method' = m
          /\ coingecko_listing' = cg
          /\ result' = select_with_fallback(listings, cg, m)
    /\ op' = "select_with_fallback"
    /\ UNCHANGED <<listings, dexvars, valvars, mapvars, extvars>>

Next == AddListing \/ Select \/ SelectWithFallback

Spec == Init /\ [][Next]_vars

(***************************************************************************)
(* DEX price stabilization.                                                *)
(*                                                                         *)
(* Venue prices are whole numbers (floats that are exact); hours are        *)
(* integers.  A spread threshold is kept in tenths of a percent (1.0% is   *)
(* 10), a reported spread_pct in hundredths of a percent (round(x, 2)),    *)
(* the reference price of detect_stabilization in units of 10^-6           *)
(* (round(x, 6)) and that of find_stabilization_hour, like its dex_prices, *)
(* in units of 10^-4 (round(x, 4)).                                        *)
(***************************************************************************)
spread_threshold_pct == 10
min_swaps_per_dex == 10
HighSpread == 5
MediumSpread == 10
HighDexCount == 4
MediumDexCount == 3
Micro == 1000000
TenThousandth == 10000

\* round(n / d): to the nearest integer, halves to the even one.
RoundDiv(n, d) ==
    LET q == n \div d
        r == n % d
    IN  IF 2 * r < d THEN q
        ELSE IF 2 * r > d THEN q + 1
        ELSE IF q % 2 = 0 THEN q ELSE q + 1

SeqMin(s) == CHOOSE x \in {s[i] : i \in 1..Len(s)} : \A i \in 1..Len(s) : x <= s[i]
SeqMax(s) == CHOOSE x \in {s[i] : i \in 1..Len(s)} : \A i \in 1..Len(s) : x >= s[i]

\* sorted(by_hour.keys()) as a sequence.
RECURSIVE SortedHours(_)
SortedHours(hs) ==
    IF hs = {} THEN <<>>
    ELSE LET h == CHOOSE x \in hs : \A y \in hs : x <= y
         IN  <<h>> \o SortedHours(hs \ {h})

HoursOf(rows) == {rows[i].hour : i \in 1..Len(rows)}

\* by_hour[hour]: the rows of the hour, in input order.
RowsOfHour(rows, h) == SelectSeq(rows, LAMBDA r : r.hour = h)

\* ((max_price - min_price) / min_price) * 100 <= t, t in tenths of a percent
SpreadAtMost(prices, t) ==
    (SeqMax(prices) - SeqMin(prices)) * 1000 <= t * SeqMin(prices)

\* ((max_price - min_price) / min_price) * 100 < t, t in tenths of a percent
SpreadBelow(prices, t) ==
    (SeqMax(prices) - SeqMin(prices)) * 1000 < t * SeqMin(prices)

\* round(spread_pct, 2), in hundredths of a percent
RoundedSpread(prices) ==
    RoundDiv((SeqMax(prices) - SeqMin(prices)) * 10000, SeqMin(prices))

\* ---- FlipsideProvider.detect_stabilization ----

\* dp.avg_sell_price or dp.avg_buy_price
DexPrice(dp) ==
    IF TruthyNum(dp.avg_sell_price) THEN dp.avg_sell_price ELSE dp.avg_buy_price

\* Mutant of DexRowCounts: the swap floor is forgotten.
DexRowCounts_NoSwapFloor(dp) ==
    /\ TruthyNum(DexPrice(dp))
    /\ DexPrice(dp)[1] > 0

\* The row enters valid_prices.
DexRowCounts(dp) ==
    /\ ~(dp.swap_count < min_swaps_per_dex)
    /\ TruthyNum(DexPrice(dp))
    /\ DexPrice(dp)[1] > 0

\* valid_prices: dex_program -> price, a later row of a program replacing an
\* earlier one.
ValidPrices(hour_data) ==
    LET counted == SelectSeq(hour_data, DexRowCounts)
        last(d) == CHOOSE i \in 1..Len(counted) :
                       /\ counted[i].dex_program = d
                       /\ \A j \in (i + 1)..Len(counted) : counted[j].dex_program # d
    IN  [d \in {counted[i].dex_program : i \in 1..Len(counted)} |->
            DexPrice(counted[last(d)])[1]]

\* list(valid_prices.values()), keys in insertion order.
RECURSIVE DictValues(_, _)
DictValues(valid_prices, counted) ==
    IF counted = <<>> THEN <<>>
    ELSE LET d == Head(counted).dex_program
             rest == SelectSeq(Tail(counted), LAMBDA r : r.dex_program # d)
         IN  <<valid_prices[d]>> \o DictValues(valid_prices, rest)

TotalSwaps(hour_data) ==
    LET counted == SelectSeq(hour_data, DexRowCounts)
    IN  SumSeq([i \in 1..Len(counted) |-> counted[i].swap_count])

DexConfidence(n, prices) ==
    IF n >= HighDexCount /\ SpreadAtMost(prices, HighSpread) THEN "high"
    ELSE IF n >= MediumDexCount /\ SpreadAtMost(prices, MediumSpread) THEN "medium"
    ELSE "low"

\* One iteration of the loop over the hours: TRUE when it returns a result.
DexHourConverges(hour_data, threshold, min_count) ==
    LET valid_prices == ValidPrices(hour_data)
        prices == DictValues(valid_prices, SelectSeq(hour_data, DexRowCounts))
    IN  /\ ~(Cardinality(DOMAIN valid_prices) < min_count)
        /\ SpreadAtMost(prices, threshold)

DexResultOf(h, hour_data) ==
    LET valid_prices == ValidPrices(hour_data)
        prices == DictValues(valid_prices, SelectSeq(hour_data, DexRowCounts))
    IN  [stabilization_hour |-> h,
         reference_price |-> RoundDiv(SumSeq(prices) * Micro, Len(prices)),
         spread_pct |-> RoundedSpread(prices),
         confidence |-> DexConfidence(Cardinality(DOMAIN valid_prices), prices),
         dex_prices |-> valid_prices,
         total_swaps |-> TotalSwaps(hour_data),
         method |-> "dex_convergence"]

RECURSIVE DexScan(_, _, _, _)
DexScan(rows, hours, threshold, min_count) ==
    IF hours = <<>> THEN None
    ELSE IF DexHourConverges(RowsOfHour(rows, Head(hours)), threshold, min_count)
         THEN Some(DexResultOf(Head(hours), RowsOfHour(rows, Head(hours))))
         ELSE DexScan(rows, Tail(hours), threshold, min_count)

detect_stabilization(rows, threshold, min_count) ==
    DexScan(rows, SortedHours(HoursOf(rows)), threshold, min_count)

\* ---- FlipsideSQLProvider.find_stabilization_hour ----

\* valid_swaps of an hour
ValidSwaps(hour_swaps) ==
    SelectSeq(hour_swaps, LAMBDA sw : sw.avg_price # 0 /\ sw.avg_price > 0)

SwapPrices(valid_swaps) == [i \in 1..Len(valid_swaps) |-> valid_swaps[i].avg_price]

SwapConfidence(prices) ==
    IF SpreadBelow(prices, HighSpread) THEN "HIGH"
    ELSE IF SpreadBelow(prices, MediumSpread) THEN "MEDIUM"
    ELSE "LOW"

SwapHourConverges(hour_swaps, max_spread, min_count) ==
    /\ ~(Len(ValidSwaps(hour_swaps)) < min_count)
    /\ SpreadAtMost(SwapPrices(ValidSwaps(hour_swaps)), max_spread)

SwapResultOf(h, hour_swaps) ==
    LET valid_swaps == ValidSwaps(hour_swaps)
        prices == SwapPrices(valid_swaps)
        total_volume == SumSeq([i \in 1..Len(valid_swaps) |-> valid_swaps[i].swap_count])
        weighted == SumSeq([i \in 1..Len(valid_swaps) |->
                               valid_swaps[i].avg_price * valid_swaps[i].swap_count])
    IN  [stabilization_hour |-> h,
         reference_price |-> RoundDiv(weighted * TenThousandth, total_volume),
         spread_pct |-> RoundedSpread(prices),
         confidence |-> SwapConfidence(prices),
         dex_prices |-> [d \in {valid_swaps[i].swap_program : i \in 1..Len(valid_swaps)} |->
                            TenThousandth * (CHOOSE x \in {valid_swaps[i].avg_price : i \in 1..Len(valid_swaps)} :
                                \E i \in 1..Len(valid_swaps) :
                                    /\ valid_swaps[i].swap_program = d
                                    /\ valid_swaps[i].avg_price = x
                                    /\ \A j \in (i + 1)..Len(valid_swaps) :
                                          valid_swaps[j].swap_program # d)],
         total_swaps |-> total_volume]

RECURSIVE SwapScan(_, _, _, _)
SwapScan(rows, hours, max_spread, min_count) ==
    IF hours = <<>> THEN None
    ELSE IF SwapHourConverges(RowsOfHour(rows, Head(hours)), max_spread, min_count)
         THEN Some(SwapResultOf(Head(hours), RowsOfHour(rows, Head(hours))))
         ELSE SwapScan(rows, Tail(hours), max_spread, min_count)

find_stabilization_hour(rows, max_spread, min_count) ==
    IF rows = <<>> THEN None
    ELSE SwapScan(rows, SortedHours(HoursOf(rows)), max_spread, min_count)

\* ---- inputs ----
MaxRows == 4

Hours == {1, 2}
Venues == <<"meteora", "orca", "phoenix", "raydium">>
VenueIndex(d) == CHOOSE i \in 1..Len(Venues) : Venues[i] = d

\* What a venue may report for an hour (avg_sell_price, avg_buy_price,
\* swap_count): the query keeps groups of at least 5 swaps.
HourlyReports ==
    { <<Some(200), None, 10>>,
      <<Some(201), Some(999), 12>>,
      <<None, Some(203), 10>>,
      <<Some(200), Some(200), 9>>,
      <<None, None, 15>> }

DexHourlyPrice(h, d, rep) ==
    [hour |-> h, dex_program |-> d, avg_sell_price |-> rep[1],
     avg_buy_price |-> rep[2], swap_count |-> rep[3]]

\* What the swap query returns for a venue and hour (avg_price, swap_count):
\* HAVING avg_price > 0, COUNT(*) >= 1.
SwapReports == { <<200, 3>>, <<201, 1>>, <<202, 1>>, <<203, 2>> }

DEXSwapData(h, d, rep) ==
    [hour |-> h, swap_program |-> d, avg_price |-> rep[1], swap_count |-> rep[2]]

\* Rows arrive as the queries order them, one row per hour and venue:
\* ORDER BY hour, venue.
AddHourlyPrice ==
    /\ dex_op = "collect"
    /\ swaps = <<>>
    /\ Len(hourly_prices) < MaxRows
    /\ \E h \in Hours, i \in 1..Len(Venues), rep \in HourlyReports :
          /\ hourly_prices # <<>> =>
                LET last == hourly_prices[Len(hourly_prices)]
                IN  \/ last.hour < h
                    \/ last.hour = h /\ VenueIndex(last.dex_program) < i
          /\ hourly_prices' = Append(hourly_prices, DexHourlyPrice(h, Venues[i], rep))
    /\ UNCHANGED <<swaps, min_dex_count, dex_result, dex_op, selvars, valvars, mapvars, extvars>>

\* ORDER BY hour, swap_count DESC (venues of equal count in venue order).
AddSwap ==
    /\ dex_op = "collect"
    /\ hourly_prices = <<>>
    /\ Len(swaps) < MaxRows
    /\ \E h \in Hours, i \in 1..Len(Venues), rep \in SwapReports :
          /\ \A k \in 1..Len(swaps) :
                ~(swaps[k].hour = h /\ swaps[k].swap_program = Venues[i])
          /\ swaps # <<>> =>
                LET last == swaps[Len(swaps)]
                IN  \/ last.hour < h
                    \/ last.hour = h /\ last.swap_count > rep[2]
                    \/ /\ last.hour = h /\ last.swap_count = rep[2]
                       /\ VenueIndex(last.swap_program) < i
          /\ swaps' = Append(swaps, DEXSwapData(h, Venues[i], rep))
    /\ UNCHANGED <<hourly_prices, min_dex_count, dex_result, dex_op, selvars, valvars, mapvars, extvars>>

MinDexCounts == {2, 3}

DetectStabilization ==
    /\ dex_op = "collect"
    /\ swaps = <<>>
    /\ \E n \in MinDexCounts :
          /\ min_dex_count' = n
          /\ dex_result' = detect_stabilization(hourly_prices, spread_threshold_pct, n)
    /\ dex_op' = "detect_stabilization"
    /\ UNCHANGED <<hourly_prices, swaps, selvars, valvars, mapvars, extvars>>

FindStabilizationHour ==
    /\ dex_op = "collect"
    /\ hourly_prices = <<>>
    /\ \E n \in MinDexCounts :
          /\ min_dex_count' = n
          /\ dex_result' = find_stabilization_hour(swaps, spread_threshold_pct, n)
    /\ dex_op' = "find_stabilization_hour"
    /\ UNCHANGED <<hourly_prices, swaps, selvars, valvars, mapvars, extvars>>

NextDex == AddHourlyPrice \/ AddSwap \/ DetectStabilization \/ FindStabilizationHour

SpecDex == Init /\ [][NextDex]_vars

(***************************************************************************)
(* ValuationCalculator (src/src/calculator/valuation.py).                  *)
(*                                                                         *)
(* Supplies are whole numbers of tokens.  USD amounts (price_usd, FDV,     *)
(* market cap, total raised) are numerators over PriceScale, so a supply   *)
(* times a price is again a USD amount.  A ratio of two USD amounts is the *)
(* fraction <<n, d>> in lowest terms with d > 0.  A note is the sequence   *)
(* of the literal and interpolated parts of its f-string.                  *)
(***************************************************************************)
RECURSIVE Gcd(_, _)
Gcd(a, b) == IF b = 0 THEN a ELSE Gcd(b, a % b)

\* a / b for b # 0
Ratio(a, b) ==
    LET g == Gcd(Abs(a), Abs(b))
        sign == IF b < 0 THEN -1 ELSE 1
    IN  <<sign * (a \div g), sign * (b \div g)>>

\* Python truthiness of an optional string: None and "" are falsy.
TruthyStr(o) == o # None /\ o[1] # ""

\* Mutant of fully_diluted_supply: total_supply is preferred to max_supply.
fully_diluted_supply_TotalFirst(sd) ==
    IF TruthyNum(sd.total_supply) THEN sd.total_supply ELSE sd.max_supply

\* SupplyData.fully_diluted_supply
fully_diluted_supply(sd) ==
    IF TruthyNum(sd.max_supply) THEN sd.max_supply ELSE sd.total_supply

\* The FDV part of calculate: <<initial_fdv, fdv_confidence, notes>>.
CalcFDV(price, sd) ==
    LET fds == fully_diluted_supply(sd)
    IN  IF TruthyNum(fds) /\ price # 0
        THEN <<Some(fds[1] * price), "high",
               << <<"FDV = ", fds[1], " tokens × $", price, " = $", fds[1] * price>>,
                  IF TruthyNum(sd.max_supply) /\ sd.max_supply = fds
                  THEN <<"Using max_supply for FDV calculation">>
                  ELSE <<"Using total_supply for FDV calculation">> >> >>
        ELSE <<None, "unknown",
               << <<"FDV could not be calculated: missing supply or price data">> >> >>

\* Mutant of CalcMarketCap: the current circulating supply stands in for a
\* missing figure at listing.
CalcMarketCap_CurrentSupply(price, sd) ==
    LET circ_supply == IF sd.circulating_supply_at_listing # None
                       THEN sd.circulating_supply_at_listing
                       ELSE sd.circulating_supply_current
    IN  IF TruthyNum(circ_supply) /\ price # 0
        THEN <<Some(circ_supply[1] * price),
               IF sd.circulating_supply_is_estimate THEN "low" ELSE "high",
               << <<"Market Cap = ", circ_supply[1], " tokens × $", price, " = $",
                    circ_supply[1] * price>> >> >>
        ELSE <<None, "unknown",
               << <<"Market Cap could not be calculated: circulating supply at listing is unknown. Provide manual_circulating_supply for accurate calculation.">> >> >>

\* The market-cap part of calculate: <<initial_market_cap, mcap_confidence, notes>>.
CalcMarketCap(price, sd) ==
    LET circ_supply == sd.circulating_supply_at_listing
    IN  IF TruthyNum(circ_supply) /\ price # 0
        THEN <<Some(circ_supply[1] * price),
               IF sd.circulating_supply_is_estimate THEN "low" ELSE "high",
               << <<"Market Cap = ", circ_supply[1], " tokens × $", price, " = $",
                    circ_supply[1] * price>> >>
               \o (IF sd.circulating_supply_is_estimate
                   THEN << <<"WARNING: Circulating supply at listing is ESTIMATED. Method: ",
                             IF TruthyStr(sd.estimation_method)
                             THEN sd.estimation_method[1] ELSE "unknown">> >>
                   ELSE <<>>)>>
        ELSE <<None, "unknown",
               << <<"Market Cap could not be calculated: circulating supply at listing is unknown. Provide manual_circulating_supply for accurate calculation.">> >> >>

\* fundraising_data.total_raised_usd if fundraising_data else None
TotalRaised(fd) == IF fd # None THEN fd[1].total_raised_usd ELSE None

\* Mutant of CalcRatio: the sign of total_raised is not tested.
CalcRatio_AnyRaise(initial_fdv, total_raised) ==
    IF TruthyNum(initial_fdv) /\ TruthyNum(total_raised)
    THEN <<Some(Ratio(initial_fdv[1], total_raised[1])),
           << <<"FDV/Raised = $", initial_fdv[1], " / $", total_raised[1], " = ",
                Ratio(initial_fdv[1], total_raised[1]), "x">> >> >>
    ELSE <<None, <<>> >>

\* The FDV/raised part of calculate: <<fdv_to_raised_ratio, notes>>.
CalcRatio(initial_fdv, total_raised) ==
    IF TruthyNum(initial_fdv) /\ TruthyNum(total_raised) /\ total_raised[1] > 0
    THEN <<Some(Ratio(initial_fdv[1], total_raised[1])),
           << <<"FDV/Raised = $", initial_fdv[1], " / $", total_raised[1], " = ",
                Ratio(initial_fdv[1], total_raised[1]), "x">> >> >>
    ELSE IF TruthyNum(initial_fdv) /\ ~TruthyNum(total_raised)
    THEN <<None, << <<"FDV/Raised ratio not available: no fundraising data">> >> >>
    ELSE <<None, <<>> >>

\* ValuationCalculator.calculate
calculate(price, sd, fd) ==
    LET fdv == CalcFDV(price, sd)
        mcap == CalcMarketCap(price, sd)
        ratio == CalcRatio(fdv[1], TotalRaised(fd))
    IN  [initial_price_usd |-> price,
         initial_market_cap |-> mcap[1],
         initial_fdv |-> fdv[1],
         total_raised_usd |-> TotalRaised(fd),
         fdv_to_raised_ratio |-> ratio[1],
         market_cap_confidence |-> mcap[2],
         fdv_confidence |-> fdv[2],
         calculation_notes |-> fdv[3] \o mcap[3] \o ratio[2]]

\* Mutant of OverriddenSupply: a manual total supply replaces max_supply too.
OverriddenSupply_MaxReplaced(sd, manual_circulating_supply, manual_total_supply) ==
    IF manual_circulating_supply # None \/ manual_total_supply # None
    THEN [sd EXCEPT
            !.total_supply = IF TruthyNum(manual_total_supply)
                             THEN manual_total_supply ELSE @,
            !.max_supply = IF TruthyNum(manual_total_supply)
                           THEN manual_total_supply ELSE @,
            !.circulating_supply_at_listing =
                IF manual_circulating_supply # None
                THEN manual_circulating_supply ELSE @,
            !.circulating_supply_is_estimate =
                IF manual_circulating_supply # None THEN FALSE ELSE @,
            !.estimation_method =
                IF manual_circulating_supply # None
                THEN Some("Manual override provided") ELSE @]
    ELSE sd

\* The supply data calculate_with_manual_override hands to calculate.
OverriddenSupply(sd, manual_circulating_supply, manual_total_supply) ==
    IF manual_circulating_supply # None \/ manual_total_supply # None
    THEN [total_supply |-> IF TruthyNum(manual_total_supply)
                           THEN manual_total_supply ELSE sd.total_supply,
          max_supply |-> sd.max_supply,
          circulating_supply_current |-> sd.circulating_supply_current,
          circulating_supply_at_listing |->
              IF manual_circulating_supply # None
              THEN manual_circulating_supply ELSE sd.circulating_supply_at_listing,
          circulating_supply_source |-> sd.circulating_supply_source,
          circulating_supply_is_estimate |->
              IF manual_circulating_supply # None
              THEN FALSE ELSE sd.circulating_supply_is_estimate,
          estimation_method |->
              IF manual_circulating_supply # None
              THEN Some("Manual override provided") ELSE sd.estimation_method]
    ELSE sd

\* Mutant of calculate_with_manual_override: the overrides are dropped.
calculate_with_manual_override_Ignored(price, sd, fd, manual_circulating_supply, manual_total_supply) ==
    calculate(price, sd, fd)

\* ValuationCalculator.calculate_with_manual_override
calculate_with_manual_override(price, sd, fd, manual_circulating_supply, manual_total_supply) ==
    calculate(price, OverriddenSupply(sd, manual_circulating_supply, manual_total_supply), fd)

calc_fdv(total_supply, price) == total_supply * price

calc_market_cap(circulating_supply, price) == circulating_supply * price

\* The ratio, or the exception raised.
calc_fdv_to_raised(fdv, total_raised) ==
    IF total_raised <= 0
    THEN [raised |-> "ValueError", message |-> "total_raised must be positive"]
    ELSE [returned |-> Ratio(fdv, total_raised)]

\* ---- inputs ----
SupplyData(total, max, current, at_listing, is_estimate, how) ==
    [total_supply |-> total, max_supply |-> max,
     circulating_supply_current |-> current,
     circulating_supply_at_listing |-> at_listing,
     circulating_supply_source |-> "unknown",
     circulating_supply_is_estimate |-> is_estimate,
     estimation_method |-> how]

TotalSupplies == {None, Some(0), Some(1000)}
MaxSupplies == {None, Some(0), Some(2000)}
CurrentSupplies == {None, Some(600)}
ListingSupplies == {None, Some(0), Some(300)}
EstimationMethods == {None, Some("TGE unlock percentage")}
\* price_usd: a selected price, or the 0 a fallback candle can carry.
Prices == {0, 5}
FundraisingData(total_raised_usd) == [total_raised_usd |-> total_raised_usd]
Fundraisings ==
    {None} \cup {Some(FundraisingData(r)) : r \in {None, Some(0), Some(-400), Some(400)}}
ManualCirculating == {None, Some(0), Some(250)}
ManualTotal == {None, Some(0), Some(3000)}
FormulaFDVs == {0, 1000, 10000}
FormulaRaised == {-100, 0, 100, 400}

\* The orchestrator has a reference price, supply data and fundraising data.
ReceiveInputs ==
    /\ val_op = "idle"
    /\ \E p \in Prices, t \in TotalSupplies, m \in MaxSupplies, c \in CurrentSupplies,
          a \in ListingSupplies, est \in BOOLEAN, how \in EstimationMethods,
          fd \in Fundraisings :
          /\ reference_price' = p
          /\ supply_data' = Some(SupplyData(t, m, c, a, est, how))
          /\ fundraising_data' = fd
    /\ val_op' = "ready"
    /\ UNCHANGED <<manual, valuation, formula_args, formula_result, selvars, dexvars, mapvars, extvars>>

Calculate ==
    /\ val_op = "ready"
    /\ valuation' = Some(calculate(reference_price, supply_data[1], fundraising_data))
    /\ val_op' = "calculate"
    /\ UNCHANGED <<reference_price, supply_data, fundraising_data, manual,
                   formula_args, formula_result, selvars, dexvars, mapvars, extvars>>

CalculateWithManualOverride ==
    /\ val_op = "ready"
    /\ \E mc \in ManualCirculating, mt \in ManualTotal :
          /\ manual' = Some([manual_circulating_supply |-> mc, manual_total_supply |-> mt])
          /\ valuation' = Some(calculate_with_manual_override(
                                   reference_price, supply_data[1], fundraising_data, mc, mt))
    /\ val_op' = "calculate_with_manual_override"
    /\ UNCHANGED <<reference_price, supply_data, fundraising_data,
                   formula_args, formula_result, selvars, dexvars, mapvars, extvars>>

CalcFdvToRaised ==
    /\ val_op = "idle"
    /\ \E fdv \in FormulaFDVs, total_raised \in FormulaRaised :
          /\ formula_args' = Some([fdv |-> fdv, total_raised |-> total_raised])
          /\ formula_result' = Some(calc_fdv_to_raised(fdv, total_raised))
    /\ val_op' = "calc_fdv_to_raised"
    /\ UNCHANGED <<reference_price, supply_data, fundraising_data, manual, valuation,
                   selvars, dexvars, mapvars, extvars>>

NextVal == ReceiveInputs \/ Calculate \/ CalculateWithManualOverride \/ CalcFdvToRaised

SpecVal == Init /\ [][NextVal]_vars

(***************************************************************************)
(* AllocationMapper (src/src/allocation_mapper/mapper.py).                 *)
(*                                                                         *)
(* A label is the sequence of its characters.  A rule pattern keeps its    *)
(* regular expression text and, for matching, its parts: every pattern of  *)
(* the rule tables is anchored at the start and has one of the forms       *)
(*   ^lit$   ^lit   ^lit.*lit2   ^lit(?!.*lit2)   ^lit.*[a-z]               *)
(* compiled with re.IGNORECASE.  Percentages are whole numbers.            *)
(***************************************************************************)
DefaultPriority == 5
OverridePriority == 100

UpperLetters ==
    <<"A", "B", "C", "D", "E", "F", "G", "H", "I", "J", "K", "L", "M",
      "N", "O", "P", "Q", "R", "S", "T", "U", "V", "W", "X", "Y", "Z">>
LowerLetters ==
    <<"a", "b", "c", "d", "e", "f", "g", "h", "i", "j", "k", "l", "m",
      "n", "o", "p", "q", "r", "s", "t", "u", "v", "w", "x", "y", "z">>

IsLowerLetter(c) == \E i \in 1..Len(LowerLetters) : LowerLetters[i] = c

\* Mutant of LowerChar: case is kept, as without re.IGNORECASE.
LowerChar_CaseKept(c) == c

\* The character re.IGNORECASE compares in place of c.
LowerChar(c) ==
    IF \E i \in 1..Len(UpperLetters) : UpperLetters[i] = c
    THEN LowerLetters[CHOOSE i \in 1..Len(UpperLetters) : UpperLetters[i] = c]
    ELSE c

\* The label as re.IGNORECASE compares it with a lower-case pattern.
RECURSIVE LowerSeq(_)
LowerSeq(s) == IF s = <<>> THEN <<>> ELSE <<LowerChar(Head(s))>> \o LowerSeq(Tail(s))

Whitespace == {" ", "\t", "\n", "\r"}

RECURSIVE LStrip(_)
LStrip(s) == IF s # <<>> /\ Head(s) \in Whitespace THEN LStrip(Tail(s)) ELSE s

RECURSIVE RStrip(_)
RStrip(s) ==
    IF s # <<>> /\ s[Len(s)] \in Whitespace THEN RStrip(SubSeq(s, 1, Len(s) - 1)) ELSE s

\* label.strip()
strip(s) == RStrip(LStrip(s))

Pattern(text, form, prefix, arg) ==
    [pattern |-> text, form |-> form, prefix |-> prefix, arg |-> arg]

StartsWith(s, lit) == Len(s) >= Len(lit) /\ SubSeq(s, 1, Len(lit)) = lit

OccursAt(s, lit, i) == i + Len(lit) - 1 <= Len(s) /\ SubSeq(s, i, i + Len(lit) - 1) = lit

\* s[a..b] can be matched by .* (no newline in it)
DotStar(s, a, b) == \A k \in a..b : s[k] # "\n"

\* ".*lit" matches s from just after its first n characters
ThenLiteral(s, n, lit) ==
    \E i \in (n + 1)..(Len(s) + 1) : DotStar(s, n + 1, i - 1) /\ OccursAt(s, lit, i)

\* pattern.search(label) for a compiled pattern p, s being LowerSeq(label)
Search(p, s) ==
    LET n == Len(p.prefix)
    IN  /\ StartsWith(s, p.prefix)
        /\ CASE p.form = "prefix" -> TRUE
             [] p.form = "exact" -> Len(s) = n \/ (Len(s) = n + 1 /\ s[n + 1] = "\n")
             [] p.form = "then" -> ThenLiteral(s, n, p.arg)
             [] p.form = "not_then" -> ~ThenLiteral(s, n, p.arg)
             [] p.form = "then_letter" ->
                    \E i \in (n + 1)..Len(s) : DotStar(s, n + 1, i - 1) /\ IsLowerLetter(s[i])

\* The buckets of CanonicalBucket, in the order of the enumeration.
CanonicalBucket ==
    <<"team_founder", "advisors_partner", "investors", "public_sales", "airdrop",
      "community_rewards", "listing_liquidity", "ecosystem_rd", "treasury_reserve",
      "unknown">>

\* CanonicalBucket(name) does not raise ValueError
IsCanonical(name) == \E i \in 1..Len(CanonicalBucket) : CanonicalBucket[i] = name

bucket_order(b) == CHOOSE i \in 1..Len(CanonicalBucket) : CanonicalBucket[i] = b

\* The rule table used without a configuration file, in registration order.
DEFAULT_MAPPING_RULES ==
    << [bucket |-> "team_founder", priority |-> Some(10),
        patterns |-> <<
          Pattern("^team$", "exact", <<"t", "e", "a", "m">>, <<>>),
          Pattern("^founder", "prefix", <<"f", "o", "u", "n", "d", "e", "r">>, <<>>),
          Pattern("^core.*team", "then", <<"c", "o", "r", "e">>, <<"t", "e", "a", "m">>),
          Pattern("^development.*team", "then", <<"d", "e", "v", "e", "l", "o", "p", "m", "e", "n", "t">>, <<"t", "e", "a", "m">>),
          Pattern("^founding", "prefix", <<"f", "o", "u", "n", "d", "i", "n", "g">>, <<>>),
          Pattern("^employee", "prefix", <<"e", "m", "p", "l", "o", "y", "e", "e">>, <<>>),
          Pattern("^staff", "prefix", <<"s", "t", "a", "f", "f">>, <<>>),
          Pattern("^core.*contributor", "then", <<"c", "o", "r", "e">>, <<"c", "o", "n", "t", "r", "i", "b", "u", "t", "o", "r">>)>>],
       [bucket |-> "advisors_partner", priority |-> Some(10),
        patterns |-> <<
          Pattern("^advisor", "prefix", <<"a", "d", "v", "i", "s", "o", "r">>, <<>>),
          Pattern("^partner", "prefix", <<"p", "a", "r", "t", "n", "e", "r">>, <<>>),
          Pattern("^strategic.*partner", "then", <<"s", "t", "r", "a", "t", "e", "g", "i", "c">>, <<"p", "a", "r", "t", "n", "e", "r">>),
          Pattern("^consultant", "prefix", <<"c", "o", "n", "s", "u", "l", "t", "a", "n", "t">>, <<>>)>>],
       [bucket |-> "investors", priority |-> Some(10),
        patterns |-> <<
          Pattern("^investor", "prefix", <<"i", "n", "v", "e", "s", "t", "o", "r">>, <<>>),
          Pattern("^seed", "prefix", <<"s", "e", "e", "d">>, <<>>),
          Pattern("^private", "prefix", <<"p", "r", "i", "v", "a", "t", "e">>, <<>>),
          Pattern("^strategic.*sale", "then", <<"s", "t", "r", "a", "t", "e", "g", "i", "c">>, <<"s", "a", "l", "e">>),
          Pattern("^strategic.*round", "then", <<"s", "t", "r", "a", "t", "e", "g", "i", "c">>, <<"r", "o", "u", "n", "d">>),
          Pattern("^series.*[a-z]", "then_letter", <<"s", "e", "r", "i", "e", "s">>, <<>>),
          Pattern("^vc", "prefix", <<"v", "c">>, <<>>),
          Pattern("^venture", "prefix", <<"v", "e", "n", "t", "u", "r", "e">>, <<>>),
          Pattern("^early.*investor", "then", <<"e", "a", "r", "l", "y">>, <<"i", "n", "v", "e", "s", "t", "o", "r">>),
          Pattern("^pre.*seed", "then", <<"p", "r", "e">>, <<"s", "e", "e", "d">>),
          Pattern("^angel", "prefix", <<"a", "n", "g", "e", "l">>, <<>>),
          Pattern("^launchpad", "prefix", <<"l", "a", "u", "n", "c", "h", "p", "a", "d">>, <<>>)>>],
       [bucket |-> "public_sales", priority |-> Some(10),
        patterns |-> <<
          Pattern("^public", "prefix", <<"p", "u", "b", "l", "i", "c">>, <<>>),
          Pattern("^ico$", "exact", <<"i", "c", "o">>, <<>>),
          Pattern("^ido$", "exact", <<"i", "d", "o">>, <<>>),
          Pattern("^ieo$", "exact", <<"i", "e", "o">>, <<>>),
          Pattern("^token.*sale", "then", <<"t", "o", "k", "e", "n">>, <<"s", "a", "l", "e">>),
          Pattern("^crowd.*sale", "then", <<"c", "r", "o", "w", "d">>, <<"s", "a", "l", "e">>),
          Pattern("^community.*sale", "then", <<"c", "o", "m", "m", "u", "n", "i", "t", "y">>, <<"s", "a", "l", "e">>)>>],
       [bucket |-> "airdrop", priority |-> Some(10),
        patterns |-> <<
          Pattern("^airdrop", "prefix", <<"a", "i", "r", "d", "r", "o", "p">>, <<>>),
          Pattern("^air.*drop", "then", <<"a", "i", "r">>, <<"d", "r", "o", "p">>),
          Pattern("^retro.*drop", "then", <<"r", "e", "t", "r", "o">>, <<"d", "r", "o", "p">>),
          Pattern("^retroactive", "prefix", <<"r", "e", "t", "r", "o", "a", "c", "t", "i", "v", "e">>, <<>>),
          Pattern("^user.*distribution", "then", <<"u", "s", "e", "r">>, <<"d", "i", "s", "t", "r", "i", "b", "u", "t", "i", "o", "n">>),
          Pattern("^user.*allocation", "then", <<"u", "s", "e", "r">>, <<"a", "l", "l", "o", "c", "a", "t", "i", "o", "n">>)>>],
       [bucket |-> "community_rewards", priority |-> Some(9),
        patterns |-> <<
          Pattern("^community(?!.*sale)", "not_then", <<"c", "o", "m", "m", "u", "n", "i", "t", "y">>, <<"s", "a", "l", "e">>),
          Pattern("^reward", "prefix", <<"r", "e", "w", "a", "r", "d">>, <<>>),
          Pattern("^incentive", "prefix", <<"i", "n", "c", "e", "n", "t", "i", "v", "e">>, <<>>),
          Pattern("^mining", "prefix", <<"m", "i", "n", "i", "n", "g">>, <<>>),
          Pattern("^staking.*reward", "then", <<"s", "t", "a", "k", "i", "n", "g">>, <<"r", "e", "w", "a", "r", "d">>),
          Pattern("^yield", "prefix", <<"y", "i", "e", "l", "d">>, <<>>),
          Pattern("^emission", "prefix", <<"e", "m", "i", "s", "s", "i", "o", "n">>, <<>>),
          Pattern("^farming", "prefix", <<"f", "a", "r", "m", "i", "n", "g">>, <<>>),
          Pattern("^liquidity.*mining", "then", <<"l", "i", "q", "u", "i", "d", "i", "t", "y">>, <<"m", "i", "n", "i", "n", "g">>),
          Pattern("^governance.*reward", "then", <<"g", "o", "v", "e", "r", "n", "a", "n", "c", "e">>, <<"r", "e", "w", "a", "r", "d">>),
          Pattern("^contributor(?!.*core)", "not_then", <<"c", "o", "n", "t", "r", "i", "b", "u", "t", "o", "r">>, <<"c", "o", "r", "e">>),
          Pattern("^grant", "prefix", <<"g", "r", "a", "n", "t">>, <<>>),
          Pattern("^bounty", "prefix", <<"b", "o", "u", "n", "t", "y">>, <<>>)>>],
       [bucket |-> "listing_liquidity", priority |-> Some(10),
        patterns |-> <<
          Pattern("^listing", "prefix", <<"l", "i", "s", "t", "i", "n", "g">>, <<>>),
          Pattern("^liquidity(?!.*mining)", "not_then", <<"l", "i", "q", "u", "i", "d", "i", "t", "y">>, <<"m", "i", "n", "i", "n", "g">>),
          Pattern("^market.*mak", "then", <<"m", "a", "r", "k", "e", "t">>, <<"m", "a", "k">>),
          Pattern("^exchange", "prefix", <<"e", "x", "c", "h", "a", "n", "g", "e">>, <<>>),
          Pattern("^cex", "prefix", <<"c", "e", "x">>, <<>>),
          Pattern("^dex.*liquidity", "then", <<"d", "e", "x">>, <<"l", "i", "q", "u", "i", "d", "i", "t", "y">>),
          Pattern("^trading", "prefix", <<"t", "r", "a", "d", "i", "n", "g">>, <<>>)>>],
       [bucket |-> "ecosystem_rd", priority |-> Some(8),
        patterns |-> <<
          Pattern("^ecosystem", "prefix", <<"e", "c", "o", "s", "y", "s", "t", "e", "m">>, <<>>),
          Pattern("^development(?!.*team)", "not_then", <<"d", "e", "v", "e", "l", "o", "p", "m", "e", "n", "t">>, <<"t", "e", "a", "m">>),
          Pattern("^r&d", "prefix", <<"r", "&", "d">>, <<>>),
          Pattern("^research", "prefix", <<"r", "e", "s", "e", "a", "r", "c", "h">>, <<>>),
          Pattern("^protocol.*development", "then", <<"p", "r", "o", "t", "o", "c", "o", "l">>, <<"d", "e", "v", "e", "l", "o", "p", "m", "e", "n", "t">>),
          Pattern("^network.*development", "then", <<"n", "e", "t", "w", "o", "r", "k">>, <<"d", "e", "v", "e", "l", "o", "p", "m", "e", "n", "t">>),
          Pattern("^growth", "prefix", <<"g", "r", "o", "w", "t", "h">>, <<>>),
          Pattern("^adoption", "prefix", <<"a", "d", "o", "p", "t", "i", "o", "n">>, <<>>),
          Pattern("^integration", "prefix", <<"i", "n", "t", "e", "g", "r", "a", "t", "i", "o", "n">>, <<>>),
          Pattern("^foundation", "prefix", <<"f", "o", "u", "n", "d", "a", "t", "i", "o", "n">>, <<>>),
          Pattern("^dao(?!.*treasury)", "not_then", <<"d", "a", "o">>, <<"t", "r", "e", "a", "s", "u", "r", "y">>)>>],
       [bucket |-> "treasury_reserve", priority |-> Some(10),
        patterns |-> <<
          Pattern("^treasury", "prefix", <<"t", "r", "e", "a", "s", "u", "r", "y">>, <<>>),
          Pattern("^reserve", "prefix", <<"r", "e", "s", "e", "r", "v", "e">>, <<>>),
          Pattern("^strategic.*reserve", "then", <<"s", "t", "r", "a", "t", "e", "g", "i", "c">>, <<"r", "e", "s", "e", "r", "v", "e">>),
          Pattern("^emergency", "prefix", <<"e", "m", "e", "r", "g", "e", "n", "c", "y">>, <<>>),
          Pattern("^insurance", "prefix", <<"i", "n", "s", "u", "r", "a", "n", "c", "e">>, <<>>),
          Pattern("^protocol.*owned", "then", <<"p", "r", "o", "t", "o", "c", "o", "l">>, <<"o", "w", "n", "e", "d">>),
          Pattern("^dao.*treasury", "then", <<"d", "a", "o">>, <<"t", "r", "e", "a", "s", "u", "r", "y">>)>>] >>

\* _compile_patterns: every pattern of a bucket with the bucket's priority,
\* as one sequence in the order map_label visits them.
RECURSIVE _compile_patterns(_)
_compile_patterns(table) ==
    IF table = <<>> THEN <<>>
    ELSE LET config == Head(table)
             priority == IF config.priority # None THEN config.priority[1]
                         ELSE DefaultPriority
         IN  [j \in 1..Len(config.patterns) |->
                 [bucket_name |-> config.bucket, pattern |-> config.patterns[j],
                  priority |-> priority]]
             \o _compile_patterns(Tail(table))

\* Mutant of _check_source_override: the override of any source applies.
_check_source_override_AnySource(overrides, source, label) ==
    IF \E src \in DOMAIN overrides : label \in DOMAIN overrides[src]
    THEN Some(overrides[CHOOSE src \in DOMAIN overrides : label \in DOMAIN overrides[src]][label])
    ELSE None

\* self.source_overrides.get(source.value, {}).get(label)
_check_source_override(overrides, source, label) ==
    IF source \in DOMAIN overrides /\ label \in DOMAIN overrides[source]
    THEN Some(overrides[source][label])
    ELSE None

\* Mutant of Replaces: a later match of equal priority replaces the best one.
Replaces_OrEqual(priority, best_match) ==
    best_match = None \/ priority >= best_match[1][3]

\* best_match is None or priority > best_match[2]
Replaces(priority, best_match) ==
    best_match = None \/ priority > best_match[1][3]

\* The loop of map_label over the compiled patterns; folded is the stripped
\* label in lower case.
RECURSIVE BestMatch(_, _, _)
BestMatch(compiled_patterns, folded, best_match) ==
    IF compiled_patterns = <<>> THEN best_match
    ELSE LET c == Head(compiled_patterns)
         IN  IF /\ Search(c.pattern, folded)
                /\ IsCanonical(c.bucket_name)
                /\ Replaces(c.priority, best_match)
             THEN BestMatch(Tail(compiled_patterns), folded,
                            Some(<<c.bucket_name, c.pattern.pattern, c.priority>>))
             ELSE BestMatch(Tail(compiled_patterns), folded, best_match)

\* AllocationMapper.map_label: <<bucket, matched rule, priority>>
map_label(compiled_patterns, overrides, label, source) ==
    LET label_clean == strip(label)
        override == _check_source_override(overrides, source, label_clean)
        best_match == BestMatch(compiled_patterns, LowerSeq(label_clean), None)
    IN  IF override # None /\ override[1] # "" /\ IsCanonical(override[1])
        THEN <<override[1], "source_override:" \o source, OverridePriority>>
        ELSE IF best_match # None THEN best_match[1]
        ELSE <<"unknown", "no_match", 0>>

CompleteLow == 95
CompleteHigh == 105

\* The non-null values of a sequence of optional numbers, added up.
SumGiven(opts) ==
    SumSeq([i \in 1..Len(SelectSeq(opts, LAMBDA o : o # None)) |->
               SelectSeq(opts, LAMBDA o : o # None)[i][1]])

\* The MappedAllocation of one bucket from its raw allocations and the rules
\* that resolved them, both in input order.  original_labels, sources and the
\* rules joined into mapping_rule pass through a Python set, whose order is
\* not fixed: they are kept as sets.
MappedAllocation(bucket, raws, rule_names) ==
    LET pcts == [i \in 1..Len(raws) |-> raws[i].percentage]
        amounts == [i \in 1..Len(raws) |-> raws[i].amount]
        sources == {raws[i].source : i \in 1..Len(raws)}
        with_vesting == SelectSeq(raws, LAMBDA r : r.vesting # None)
    IN  [canonical_bucket |-> bucket,
         original_labels |-> {raws[i].label : i \in 1..Len(raws)},
         percentage |-> IF \E i \in 1..Len(pcts) : pcts[i] # None
                        THEN Some(SumGiven(pcts)) ELSE None,
         amount |-> IF \E i \in 1..Len(amounts) : amounts[i] # None
                    THEN Some(SumGiven(amounts)) ELSE None,
         sources |-> sources,
         vesting |-> IF with_vesting # <<>> THEN with_vesting[1].vesting ELSE None,
         confidence |-> IF "manual" \in sources THEN "high" ELSE "medium",
         mapping_rule |-> {rule_names[i] : i \in 1..Len(rule_names)}]

\* AllocationData()
EmptyAllocationData ==
    [raw_allocations |-> <<>>, mapped_allocations |-> <<>>, total_percentage |-> None,
     is_complete |-> FALSE, sources_used |-> {}]

\* The first loop of map_allocations: map_label of every raw allocation.
RECURSIVE ResolveAll(_, _, _)
ResolveAll(compiled_patterns, overrides, raws) ==
    IF raws = <<>> THEN <<>>
    ELSE <<map_label(compiled_patterns, overrides, Head(raws).label, Head(raws).source)>>
         \o ResolveAll(compiled_patterns, overrides, Tail(raws))

\* The indices of the raw allocations resolved to bucket b, in input order.
RECURSIVE ItemsOf(_, _, _)
ItemsOf(resolved, b, i) ==
    IF i > Len(resolved) THEN <<>>
    ELSE (IF resolved[i][1] = b THEN <<i>> ELSE <<>>) \o ItemsOf(resolved, b, i + 1)

\* The second loop: one MappedAllocation for every bucket that has items.
RECURSIVE MappedOf(_, _, _)
MappedOf(raws, resolved, k) ==
    IF k > Len(CanonicalBucket) THEN <<>>
    ELSE LET items == ItemsOf(resolved, CanonicalBucket[k], 1)
         IN  (IF items = <<>> THEN <<>>
              ELSE <<MappedAllocation(CanonicalBucket[k],
                                      [n \in 1..Len(items) |-> raws[items[n]]],
                                      [n \in 1..Len(items) |-> resolved[items[n]][2]])>>)
             \o MappedOf(raws, resolved, k + 1)

\* The result from the mapped allocations, sorted by canonical bucket order.
AllocationData(raws, mapped, total_percentage) ==
    [raw_allocations |-> raws,
     mapped_allocations |-> mapped,
     total_percentage |-> IF total_percentage > 0 THEN Some(total_percentage) ELSE None,
     is_complete |-> CompleteLow <= total_percentage /\ total_percentage <= CompleteHigh,
     sources_used |-> {raws[i].source : i \in 1..Len(raws)}]

\* Mutant of TotalOfMapped: the total is overwritten by every bucket instead
\* of added to.
TotalOfMapped_Overwritten(mapped) ==
    IF mapped = <<>> THEN 0 ELSE SumGiven(<<mapped[Len(mapped)].percentage>>)

\* total_percentage after the second loop: the buckets' percentages added up.
TotalOfMapped(mapped) == SumGiven([k \in 1..Len(mapped) |-> mapped[k].percentage])

\* Mutant of Aggregated: the mapped allocations are listed in the opposite
\* order.
Aggregated_Reversed(raws, mapped) ==
    AllocationData(raws, [k \in 1..Len(mapped) |-> mapped[Len(mapped) + 1 - k]],
                   TotalOfMapped(mapped))

\* The AllocationData returned for the sorted mapped allocations.
Aggregated(raws, mapped) == AllocationData(raws, mapped, TotalOfMapped(mapped))

\* AllocationMapper.map_allocations
map_allocations(compiled_patterns, overrides, raws) ==
    IF raws = <<>> THEN EmptyAllocationData
    ELSE Aggregated(raws, MappedOf(raws, ResolveAll(compiled_patterns, overrides, raws), 1))

\* ---- inputs ----
Team == <<"T", "e", "a", "m">>
TeamUpper == <<"T", "E", "A", "M">>
TeamPadded == <<" ", "T", "e", "a", "m", " ">>
CommunitySale == <<"C", "o", "m", "m", "u", "n", "i", "t", "y", " ", "S", "a", "l", "e">>
CommunitySaleLower == <<"c", "o", "m", "m", "u", "n", "i", "t", "y", " ", "s", "a", "l", "e">>
Community == <<"C", "o", "m", "m", "u", "n", "i", "t", "y">>
DevelopmentTeam == <<"D", "e", "v", "e", "l", "o", "p", "m", "e", "n", "t", " ", "T", "e", "a", "m">>
DAOTreasury == <<"D", "A", "O", " ", "T", "r", "e", "a", "s", "u", "r", "y">>
StrategicReserve == <<"S", "t", "r", "a", "t", "e", "g", "i", "c", " ", "R", "e", "s", "e", "r", "v", "e">>
PrivateSale == <<"P", "r", "i", "v", "a", "t", "e", " ", "S", "a", "l", "e">>
PrivateSaleUpper == <<"P", "R", "I", "V", "A", "T", "E", " ", "S", "A", "L", "E">>
StrategicRound == <<"S", "t", "r", "a", "t", "e", "g", "i", "c", " ", "R", "o", "u", "n", "d">>
StrategicPartnerSale == <<"S", "t", "r", "a", "t", "e", "g", "i", "c", " ", "P", "a", "r", "t", "n", "e", "r", " ", "S", "a", "l", "e">>
Core == <<"C", "o", "r", "e">>
Seed == <<"S", "e", "e", "d">>
Treasury == <<"T", "r", "e", "a", "s", "u", "r", "y">>
Ecosystem == <<"E", "c", "o", "s", "y", "s", "t", "e", "m">>
RandomGibberish == <<"R", "a", "n", "d", "o", "m", " ", "G", "i", "b", "b", "e", "r", "i", "s", "h", " ", "X", "Y", "Z", "1", "2", "3">>

Labels ==
    {Team, TeamUpper, TeamPadded, CommunitySale, CommunitySaleLower, Community,
     DevelopmentTeam, DAOTreasury, StrategicReserve, PrivateSale, PrivateSaleUpper,
     StrategicRound, StrategicPartnerSale, Core, Seed, Treasury, Ecosystem,
     RandomGibberish}

Sources == {"cryptorank", "coingecko", "manual", "unknown"}

\* A rule table of a configuration file: two buckets tied on "strategic", a
\* bucket name that is not canonical, a bucket without a priority, and a later
\* bucket of higher priority than an earlier one.
ConfiguredRules ==
    << [bucket |-> "investors", priority |-> Some(7),
        patterns |-> << Pattern("^strategic", "prefix",
                                <<"s", "t", "r", "a", "t", "e", "g", "i", "c">>, <<>>) >>],
       [bucket |-> "marketing", priority |-> Some(50),
        patterns |-> << Pattern("^strategic", "prefix",
                                <<"s", "t", "r", "a", "t", "e", "g", "i", "c">>, <<>>),
                        Pattern("^team", "prefix", <<"t", "e", "a", "m">>, <<>>) >>],
       [bucket |-> "treasury_reserve", priority |-> Some(7),
        patterns |-> << Pattern("^strategic.*reserve", "then",
                                <<"s", "t", "r", "a", "t", "e", "g", "i", "c">>,
                                <<"r", "e", "s", "e", "r", "v", "e">>),
                        Pattern("^treasury", "prefix",
                                <<"t", "r", "e", "a", "s", "u", "r", "y">>, <<>>) >>],
       [bucket |-> "team_founder", priority |-> None,
        patterns |-> << Pattern("^team", "prefix", <<"t", "e", "a", "m">>, <<>>) >>],
       [bucket |-> "community_rewards", priority |-> Some(3),
        patterns |-> << Pattern("^community", "prefix",
                                <<"c", "o", "m", "m", "u", "n", "i", "t", "y">>, <<>>) >>],
       [bucket |-> "public_sales", priority |-> Some(9),
        patterns |-> << Pattern("^community.*sale", "then",
                                <<"c", "o", "m", "m", "u", "n", "i", "t", "y">>,
                                <<"s", "a", "l", "e">>) >>] >>

\* source_overrides of a configuration file: one that goes against the
\* patterns, one naming no canonical bucket, an empty one.
ConfiguredOverrides ==
    [src \in {"cryptorank", "coingecko"} |->
        IF src = "cryptorank"
        THEN (Team :> "investors") @@ (CommunitySale :> "community_rewards")
             @@ (Core :> "bogus") @@ (Seed :> "")
        ELSE (Treasury :> "ecosystem_rd") @@ (RandomGibberish :> "airdrop")]

\* What __init__ is given: no config_path, or the content of the file.
Configs ==
    { None,
      Some([source_overrides |-> Some(ConfiguredOverrides)]),
      Some([canonical_buckets |-> Some(ConfiguredRules),
            source_overrides |-> Some(ConfiguredOverrides)]),
      Some([canonical_buckets |-> Some(ConfiguredRules)]) }

\* _load_config: the rule table and the overrides a configuration gives.
RulesOf(config) ==
    IF config # None /\ "canonical_buckets" \in DOMAIN config[1]
    THEN config[1].canonical_buckets[1] ELSE DEFAULT_MAPPING_RULES

OverridesOf(config) ==
    IF config # None /\ "source_overrides" \in DOMAIN config[1]
    THEN config[1].source_overrides[1] ELSE <<>>

RawAllocation(source, label, percentage, amount, vesting) ==
    [source |-> source, label |-> label, percentage |-> percentage,
     amount |-> amount, vesting |-> vesting]

RawUniverse ==
    { RawAllocation("cryptorank", Team, Some(40), None, Some("12 month cliff")),
      RawAllocation("coingecko", DevelopmentTeam, Some(40), None, Some("24 month linear")),
      RawAllocation("cryptorank", PrivateSale, Some(50), Some(5000), None),
      RawAllocation("coingecko", CommunitySale, Some(7), None, Some("100% at TGE")),
      RawAllocation("manual", DAOTreasury, Some(15), None, None),
      RawAllocation("cryptorank", Ecosystem, None, Some(1000), None),
      RawAllocation("coingecko", Seed, Some(0), None, None),
      RawAllocation("unknown", RandomGibberish, Some(8), None, None) }

MaxAllocations == 3

\* AllocationMapper.__init__
Construct ==
    /\ map_op = "new"
    /\ \E config \in Configs :
          /\ rules' = RulesOf(config)
          /\ source_overrides' = OverridesOf(config)
          /\ _compiled_patterns' = _compile_patterns(RulesOf(config))
    /\ map_op' = "ready"
    /\ UNCHANGED <<raw_allocations, label_arg, source_arg, map_result, allocation_data,
                   selvars, dexvars, valvars, extvars>>

MapLabel ==
    /\ map_op = "ready"
    /\ raw_allocations = <<>>
    /\ \E label \in Labels, source \in Sources :
          /\ label_arg' = label
          /\ source_arg' = source
          /\ map_result' = Some(map_label(_compiled_patterns, source_overrides, label, source))
    /\ map_op' = "map_label"
    /\ UNCHANGED <<rules, source_overrides, _compiled_patterns, raw_allocations,
                   allocation_data, selvars, dexvars, valvars, extvars>>

\* The caller gathers one more raw allocation.
AddRawAllocation ==
    /\ map_op = "ready"
    /\ Len(raw_allocations) < MaxAllocations
    /\ \E raw \in RawUniverse :
          /\ \A i \in 1..Len(raw_allocations) : raw_allocations[i] # raw
          /\ raw_allocations' = Append(raw_allocations, raw)
    /\ UNCHANGED <<rules, source_overrides, _compiled_patterns, label_arg, source_arg,
                   map_result, allocation_data, map_op, selvars, dexvars, valvars, extvars>>

MapAllocations ==
    /\ map_op = "ready"
    /\ allocation_data' =
          Some(map_allocations(_compiled_patterns, source_overrides, raw_allocations))
    /\ map_op' = "map_allocations"
    /\ UNCHANGED <<rules, source_overrides, _compiled_patterns, raw_allocations,
                   label_arg, source_arg, map_result, selvars, dexvars, valvars, extvars>>

NextMap == Construct \/ MapLabel \/ AddRawAllocation \/ MapAllocations

SpecMap == Init /\ [][NextMap]_vars

(***************************************************************************)
(* ConflictDetector (allocation_mapper/conflict_detector.py).  Percentages *)
(* are exact numbers; a message is the sequence of the parts of its        *)
(* f-string.                                                               *)
(***************************************************************************)

DefaultThreshold == 5
DefaultAllocationMin == 95
DefaultAllocationMax == 105

\* The elements of a sequence in the order of their first occurrence: the
\* keys of a dict filled in that order.
RECURSIVE FirstSeen(_, _)
FirstSeen(s, seen) ==
    IF s = <<>> THEN <<>>
    ELSE IF Head(s) \in seen THEN FirstSeen(Tail(s), seen)
    ELSE <<Head(s)>> \o FirstSeen(Tail(s), seen \cup {Head(s)})

\* The bucket detect_conflicts files a raw allocation under: the entry of a
\* non-empty bucket_map, else the first mapped allocation that lists its label.
BucketOf(ad, bucket_map, raw) ==
    IF bucket_map # None /\ DOMAIN bucket_map[1] # {}
    THEN IF raw.label \in DOMAIN bucket_map[1] THEN bucket_map[1][raw.label] ELSE "unknown"
    ELSE LET hits == {k \in 1..Len(ad.mapped_allocations) :
                         raw.label \in ad.mapped_allocations[k].original_labels}
         IN  IF hits = {} THEN "unknown"
             ELSE ad.mapped_allocations[CHOOSE k \in hits : \A l \in hits : k <= l]
                      .canonical_bucket

\* The first loop of detect_conflicts: bucket, source and percentage of every
\* raw allocation that has a percentage.
RECURSIVE Filed(_, _, _)
Filed(ad, bucket_map, raws) ==
    IF raws = <<>> THEN <<>>
    ELSE (IF Head(raws).percentage = None THEN <<>>
          ELSE <<[bucket |-> BucketOf(ad, bucket_map, Head(raws)),
                  source |-> Head(raws).source,
                  percentage |-> Head(raws).percentage[1]]>>)
         \o Filed(ad, bucket_map, Tail(raws))

\* source_bucket_values[bucket], added up per source
SourcesOf(filed, b) ==
    FirstSeen([i \in 1..Len(SelectSeq(filed, LAMBDA e : e.bucket = b)) |->
                  SelectSeq(filed, LAMBDA e : e.bucket = b)[i].source], {})

SourceSum(filed, b, src) ==
    SumSeq([i \in 1..Len(SelectSeq(filed, LAMBDA e : e.bucket = b /\ e.source = src)) |->
               SelectSeq(filed, LAMBDA e : e.bucket = b /\ e.source = src)[i].percentage])

SourceSums(filed, b) ==
    [src \in {SourcesOf(filed, b)[i] : i \in 1..Len(SourcesOf(filed, b))} |->
        SourceSum(filed, b, src)]

MaxOf(f) == CHOOSE v \in {f[x] : x \in DOMAIN f} : \A x \in DOMAIN f : f[x] <= v
MinOf(f) == CHOOSE v \in {f[x] : x \in DOMAIN f} : \A x \in DOMAIN f : v <= f[x]

\* max_val - min_val
Discrepancy(values) == MaxOf(values) - MinOf(values)

\* discrepancy > self.percentage_threshold
Exceeds(discrepancy, threshold) == discrepancy > threshold

AllocationConflict(bucket, sources, values, discrepancy, resolution, preferred) ==
    [canonical_bucket |-> bucket, sources_involved |-> sources, values |-> values,
     discrepancy_pct |-> discrepancy, resolution |-> resolution,
     preferred_source |-> preferred]

\* The second loop of detect_conflicts over the buckets in the order filed.
RECURSIVE ConflictsOf(_, _, _)
ConflictsOf(filed, buckets, threshold) ==
    IF buckets = <<>> THEN <<>>
    ELSE LET b == Head(buckets)
             values == SourceSums(filed, b)
         IN  (IF Len(SourcesOf(filed, b)) >= 2 /\ Exceeds(Discrepancy(values), threshold)
              THEN <<AllocationConflict(b, SourcesOf(filed, b), values,
                                        Discrepancy(values), None, None)>>
              ELSE <<>>)
             \o ConflictsOf(filed, Tail(buckets), threshold)

BucketsFiled(filed) == FirstSeen([i \in 1..Len(filed) |-> filed[i].bucket], {})

\* ConflictDetector.detect_conflicts
detect_conflicts(ad, bucket_map, threshold) ==
    ConflictsOf(Filed(ad, bucket_map, ad.raw_allocations),
                BucketsFiled(Filed(ad, bucket_map, ad.raw_allocations)), threshold)

\* source_totals of detect_total_issues
SourceTotal(raws, src) ==
    SumGiven([i \in 1..Len(SelectSeq(raws, LAMBDA r : r.source = src)) |->
                 SelectSeq(raws, LAMBDA r : r.source = src)[i].percentage])

SourcesWithPercentage(raws) ==
    FirstSeen([i \in 1..Len(SelectSeq(raws, LAMBDA r : r.percentage # None)) |->
                  SelectSeq(raws, LAMBDA r : r.percentage # None)[i].source], {})

BelowMessage(src, total, minimum) ==
    <<"[", src, "] Total allocation (", total, "%) is below expected minimum (",
      minimum, "%). Some allocations may be missing.">>

AboveMessage(src, total, maximum) ==
    <<"[", src, "] Total allocation (", total, "%) exceeds expected maximum (",
      maximum, "%). Some allocations may be duplicated or incorrect.">>

\* Mutant of IssuesOf: a total equal to the minimum is reported as well.
RECURSIVE IssuesOf_MinimumExcluded(_, _, _, _)
IssuesOf_MinimumExcluded(raws, sources, minimum, maximum) ==
    IF sources = <<>> THEN <<>>
    ELSE LET total == SourceTotal(raws, Head(sources))
         IN  (IF total <= minimum THEN <<BelowMessage(Head(sources), total, minimum)>>
              ELSE IF total > maximum THEN <<AboveMessage(Head(sources), total, maximum)>>
              ELSE <<>>)
             \o IssuesOf_MinimumExcluded(raws, Tail(sources), minimum, maximum)

\* The second loop of detect_total_issues.
RECURSIVE IssuesOf(_, _, _, _)
IssuesOf(raws, sources, minimum, maximum) ==
    IF sources = <<>> THEN <<>>
    ELSE LET total == SourceTotal(raws, Head(sources))
         IN  (IF total < minimum THEN <<BelowMessage(Head(sources), total, minimum)>>
              ELSE IF total > maximum THEN <<AboveMessage(Head(sources), total, maximum)>>
              ELSE <<>>)
             \o IssuesOf(raws, Tail(sources), minimum, maximum)

\* ConflictDetector.detect_total_issues
detect_total_issues(ad, minimum, maximum) ==
    IssuesOf(ad.raw_allocations, SourcesWithPercentage(ad.raw_allocations), minimum, maximum)

DefaultPreferredSources == <<"manual", "cryptorank", "coingecko">>

\* preferred_sources or [MANUAL, CRYPTORANK, COINGECKO]
PreferenceList(preferred_sources) ==
    IF preferred_sources # None /\ preferred_sources[1] # <<>>
    THEN preferred_sources[1] ELSE DefaultPreferredSources

InvolvedSet(conflict) ==
    {conflict.sources_involved[i] : i \in 1..Len(conflict.sources_involved)}

\* conflict.values.get(source.value, 0)
ValueOf(conflict, src) ==
    IF src \in DOMAIN conflict.values THEN conflict.values[src] ELSE 0

RECURSIVE SumOver(_, _)
SumOver(values, keys) ==
    IF keys = {} THEN 0
    ELSE LET x == CHOOSE y \in keys : TRUE IN values[x] + SumOver(values, keys \ {x})

\* sum(values) for the values of a dict
SumOfValues(values) == SumOver(values, DOMAIN values)

\* abs(source_val - avg), times the number of values
Distance(conflict, src) ==
    Abs(ValueOf(conflict, src) * Cardinality(DOMAIN conflict.values)
        - SumOfValues(conflict.values))

\* The loop with min_diff: the first involved source of least distance.
ClosestToAverage(conflict) ==
    LET involved == conflict.sources_involved
        best == CHOOSE i \in 1..Len(involved) :
                    /\ \A j \in 1..Len(involved) :
                          Distance(conflict, involved[i]) <= Distance(conflict, involved[j])
                    /\ \A j \in 1..(i - 1) :
                          Distance(conflict, involved[j]) > Distance(conflict, involved[i])
    IN  involved[best]

\* best_source of suggest_resolution
BestSource(conflict, preferred_sources) ==
    LET preference == PreferenceList(preferred_sources)
        hits == {i \in 1..Len(preference) : preference[i] \in InvolvedSet(conflict)}
    IN  IF hits # {} THEN preference[CHOOSE i \in hits : \A j \in hits : i <= j]
        ELSE ClosestToAverage(conflict)

ResolutionText(src, value) == <<"Suggested: use ", src, " value (", value, "%)">>

\* ConflictDetector.suggest_resolution, for a conflict with involved sources
\* and values
suggest_resolution(conflict, preferred_sources) ==
    LET best_source == BestSource(conflict, preferred_sources)
    IN  AllocationConflict(conflict.canonical_bucket, conflict.sources_involved,
                           conflict.values, conflict.discrepancy_pct,
                           Some(ResolutionText(best_source,
                                               IF best_source \in DOMAIN conflict.values
                                               THEN conflict.values[best_source]
                                               ELSE "N/A")),
                           Some(best_source))

\* ---- inputs ----

\* percentage_threshold, total_allocation_min, total_allocation_max
DetectorSettings ==
    { <<DefaultThreshold, DefaultAllocationMin, DefaultAllocationMax>>, <<3, 30, 60>> }

ReportedUniverse ==
    { RawAllocation("cryptorank", Team, Some(40), None, None),
      RawAllocation("coingecko", Team, Some(30), None, None),
      RawAllocation("cryptorank", Seed, Some(15), None, None),
      RawAllocation("coingecko", PrivateSale, Some(22), None, None),
      RawAllocation("dropstab", StrategicRound, Some(18), None, None),
      RawAllocation("messari", Treasury, Some(100), None, None),
      RawAllocation("tokenomist", Ecosystem, None, Some(1000), None) }

MaxReported == 3

BucketMaps ==
    { None, Some(<<>>),
      Some((Seed :> "investors") @@ (PrivateSale :> "investors") @@ (Team :> "team_founder")) }

PreferredSources ==
    { None, Some(<<>>), Some(<<"coingecko", "cryptorank">>), Some(<<"messari", "tokenomist">>) }

\* ConflictDetector.__init__, once the mapper is built
ConstructDetector ==
    /\ conf_op = "new"
    /\ map_op = "ready"
    /\ raw_allocations = <<>>
    /\ \E settings \in DetectorSettings :
          /\ percentage_threshold' = settings[1]
          /\ total_allocation_min' = settings[2]
          /\ total_allocation_max' = settings[3]
    /\ conf_op' = "ready"
    /\ UNCHANGED <<bucket_map_arg, conflicts, issues, conflict_arg, preferred_arg,
                   suggestion, selvars, dexvars, valvars, mapvars, latevars>>

\* A provider reports one more raw allocation (orchestrator step 6).
ReportAllocation ==
    /\ conf_op = "ready"
    /\ map_op = "ready"
    /\ Len(raw_allocations) < MaxReported
    /\ \E raw \in ReportedUniverse :
          /\ \A i \in 1..Len(raw_allocations) : raw_allocations[i] # raw
          /\ raw_allocations' = Append(raw_allocations, raw)
    /\ UNCHANGED <<rules, source_overrides, _compiled_patterns, label_arg, source_arg,
                   map_result, allocation_data, map_op, selvars, dexvars, valvars, confvars, latevars>>

\* Orchestrator step 7: map_allocations on the reported raw allocations.
MapReported ==
    /\ conf_op = "ready"
    /\ MapAllocations

DetectConflicts ==
    /\ conf_op = "ready"
    /\ map_op = "map_allocations"
    /\ allocation_data # None
    /\ \E bucket_map \in BucketMaps :
          /\ bucket_map_arg' = bucket_map
          /\ conflicts' = Some(detect_conflicts(allocation_data[1], bucket_map,
                                                percentage_threshold))
    /\ conf_op' = "detect_conflicts"
    /\ UNCHANGED <<percentage_threshold, total_allocation_min, total_allocation_max,
                   issues, conflict_arg, preferred_arg, suggestion,
                   selvars, dexvars, valvars, mapvars, latevars>>

DetectTotalIssues ==
    /\ conf_op = "ready"
    /\ map_op = "map_allocations"
    /\ allocation_data # None
    /\ issues' = Some(detect_total_issues(allocation_data[1], total_allocation_min,
                                          total_allocation_max))
    /\ conf_op' = "detect_total_issues"
    /\ UNCHANGED <<percentage_threshold, total_allocation_min, total_allocation_max,
                   bucket_map_arg, conflicts, conflict_arg, preferred_arg, suggestion,
                   selvars, dexvars, valvars, mapvars, latevars>>

SuggestResolution ==
    /\ conf_op = "detect_conflicts"
    /\ conflicts # None
    /\ \E k \in 1..Len(conflicts[1]), preferred_sources \in PreferredSources :
          /\ conflict_arg' = Some(conflicts[1][k])
          /\ preferred_arg' = preferred_sources
          /\ suggestion' = Some(suggest_resolution(conflicts[1][k], preferred_sources))
    /\ conf_op' = "suggest_resolution"
    /\ UNCHANGED <<percentage_threshold, total_allocation_min, total_allocation_max,
                   bucket_map_arg, conflicts, issues, selvars, dexvars, valvars, mapvars, latevars>>

NextConf ==
    \/ Construct
    \/ ConstructDetector
    \/ ReportAllocation
    \/ MapReported
    \/ DetectConflicts
    \/ DetectTotalIssues
    \/ SuggestResolution

SpecConf == Init /\ [][NextConf]_vars

(***************************************************************************)
(* VestingParser.parse_dict (allocation_mapper/vesting_parser.py).  A      *)
(* dictionary is a function from its keys to their values; data.get(key)   *)
(* of a missing key is None.  Numeric fields hold numbers, text fields     *)
(* hold strings.                                                           *)
(***************************************************************************)

TgeAliases == <<"tge_unlock_pct", "tgeUnlock", "initial_unlock", "initialUnlock", "tge">>
CliffAliases == <<"cliff_months", "cliffMonths", "cliff">>
VestingAliases == <<"vesting_months", "vestingMonths", "duration", "durationMonths">>
ScheduleAliases == <<"schedule_type", "scheduleType", "type", "schedule">>
FrequencyAliases == <<"unlock_frequency", "unlockFrequency", "frequency">>
DescriptionAliases == <<"raw_description", "description", "notes", "text">>

\* data.get(key)
Get(data, key) == IF key \in DOMAIN data THEN Some(data[key]) ELSE None

\* Python truthiness of what data.get returned, for a numeric or a text field.
Truthy(kind, o) == IF kind = "number" THEN TruthyNum(o) ELSE TruthyStr(o)

\* data.get(a1) or data.get(a2) or ... : the first truthy operand, or the
\* last operand when none is truthy.
RECURSIVE OrChain(_, _, _)
OrChain(data, aliases, kind) ==
    IF Len(aliases) = 1 THEN Get(data, aliases[1])
    ELSE IF Truthy(kind, Get(data, Head(aliases))) THEN Get(data, Head(aliases))
    ELSE OrChain(data, Tail(aliases), kind)

\* str(schedule).lower() on the strings the model uses.
ScheduleLower(s) ==
    CASE s = "Linear" -> "linear"
      [] s = "CLIFF" -> "cliff"
      [] OTHER -> s

\* The schedule type parse_dict derives from the schedule field.
ScheduleTypeOf(schedule) ==
    IF ~TruthyStr(schedule) THEN "unknown"
    ELSE LET schedule_str == ScheduleLower(schedule[1])
         IN  IF schedule_str = "linear" THEN "linear"
             ELSE IF schedule_str \in {"cliff", "cliff_only"} THEN "cliff"
             ELSE IF schedule_str \in {"step", "periodic"} THEN "step"
             ELSE IF schedule_str = "custom" THEN "custom"
             ELSE "unknown"

VestingTerms(tge, cliff, vesting, schedule_type, frequency, description) ==
    [tge_unlock_pct |-> tge, cliff_months |-> cliff, vesting_months |-> vesting,
     schedule_type |-> schedule_type, unlock_frequency |-> frequency,
     raw_description |-> description]

\* VestingParser.parse_dict: None or Some(VestingTerms)
parse_dict(data) ==
    IF data = None \/ DOMAIN data[1] = {} THEN None
    ELSE LET tge_unlock == OrChain(data[1], TgeAliases, "number")
             cliff == OrChain(data[1], CliffAliases, "number")
             vesting == OrChain(data[1], VestingAliases, "number")
             schedule == OrChain(data[1], ScheduleAliases, "text")
             frequency == OrChain(data[1], FrequencyAliases, "text")
             description == OrChain(data[1], DescriptionAliases, "text")
         IN  IF \/ TruthyNum(tge_unlock) \/ TruthyNum(cliff) \/ TruthyNum(vesting)
                \/ TruthyStr(description)
             THEN Some(VestingTerms(tge_unlock, cliff, vesting, ScheduleTypeOf(schedule),
                                    frequency, description))
             ELSE None

\* ---- inputs ----

\* The fields an API response may carry, as <<key, value>>.
FieldUniverse ==
    { <<"tge_unlock_pct", 0>>, <<"tge_unlock_pct", 10>>, <<"tgeUnlock", 25>>,
      <<"initial_unlock", 0>>, <<"initialUnlock", 5>>, <<"tge", 0>>, <<"tge", 15>>,
      <<"cliff_months", 0>>, <<"cliff_months", 6>>, <<"cliffMonths", 3>>, <<"cliff", 12>>,
      <<"vesting_months", 0>>, <<"vesting_months", 24>>, <<"vestingMonths", 18>>,
      <<"duration", 12>>, <<"durationMonths", 36>>,
      <<"schedule_type", "Linear">>, <<"scheduleType", "cliff_only">>,
      <<"type", "step">>, <<"schedule", "bogus">>,
      <<"unlock_frequency", "monthly">>, <<"unlockFrequency", "">>,
      <<"frequency", "quarterly">>,
      <<"raw_description", "">>, <<"description", "6 month cliff">>,
      <<"notes", "team tokens">>, <<"text", "locked">> }

MaxFields == 3

\* The caller receives no dictionary at all.
ReceiveNoDict ==
    /\ vest_op = "collect"
    /\ vest_data = Some(<<>>)
    /\ vest_data' = None
    /\ UNCHANGED <<vest_terms, vest_op, selvars, dexvars, valvars, mapvars, confvars, orchvars>>

\* The API response carries one more field.
AddField ==
    /\ vest_op = "collect"
    /\ vest_data # None
    /\ Cardinality(DOMAIN vest_data[1]) < MaxFields
    /\ \E field \in FieldUniverse :
          /\ field[1] \notin DOMAIN vest_data[1]
          /\ vest_data' = Some((field[1] :> field[2]) @@ vest_data[1])
    /\ UNCHANGED <<vest_terms, vest_op, selvars, dexvars, valvars, mapvars, confvars, orchvars>>

ParseDict ==
    /\ vest_op = "collect"
    /\ vest_terms' = parse_dict(vest_data)
    /\ vest_op' = "parse_dict"
    /\ UNCHANGED <<vest_data, selvars, dexvars, valvars, mapvars, confvars, orchvars>>

NextVest == ReceiveNoDict \/ AddField \/ ParseDict

SpecVest == Init /\ [][NextVest]_vars

(***************************************************************************)
(* TokenListingOrchestrator: the audit trail and the quality flags of      *)
(* analyze and analyze_batch.  Time is counted in analyze calls: an entry  *)
(* recorded during the n-th call carries timestamp n, and the n-th call    *)
(* analyses token n.  The orchestrator is configured with one exchange and *)
(* without a manual data directory, and analyze is called without manual   *)
(* overrides.                                                              *)
(***************************************************************************)
MaxCalls == 2

\* _collect_provider_audits visits the providers in this order.
Providers ==
    <<"ccxt_provider", "coingecko_price", "supply_provider",
      "fundraising_provider", "allocation_provider">>

SOURCE(provider) ==
    CASE provider = "ccxt_provider" -> "ccxt"
      [] provider \in {"coingecko_price", "supply_provider"} -> "coingecko"
      [] OTHER -> "cryptorank"

AuditEntry(source, action, endpoint, success, now) ==
    [timestamp |-> now, source |-> source, action |-> action,
     endpoint |-> endpoint, success |-> success]

DataQualityFlag(field, issue, severity) ==
    [field |-> field, issue |-> issue, severity |-> severity]

\* BaseProvider._record_audit: the provider's trail with one more entry.
_record_audit(trail, provider, endpoint, success, now) ==
    Append(trail, AuditEntry(SOURCE(provider), "fetch", endpoint, success, now))

\* A provider's _make_request under the response r of the remote service:
\* "ok" and "partial" (200 with all, or with part, of the data asked for),
\* "empty" (200 without data) record a success; "not_found" (404) records
\* nothing and returns {}; "rate_limit" (429) records a failure and raises;
\* "error" (transport or HTTP error) raises without recording.
_make_request(trail, provider, endpoint, r, now) ==
    [trail |-> CASE r \in {"ok", "partial", "empty"} ->
                        _record_audit(trail, provider, endpoint, TRUE, now)
                 [] r = "rate_limit" ->
                        _record_audit(trail, provider, endpoint, FALSE, now)
                 [] OTHER -> trail,
     raised |-> r \in {"rate_limit", "error"},
     data |-> IF r \in {"ok", "partial"} THEN r ELSE "none"]

\* A value served from the provider's cache: nothing is requested or recorded.
FromCache(trail) == [trail |-> trail, raised |-> FALSE, data |-> "ok"]

\* CCXTPriceProvider.get_listings_all_exchanges for the one exchange
\* configured: the listing comes from the cache, or is fetched with its first
\* candle, or no trading pair is found; no exception leaves the provider.
get_listings_all_exchanges(trail, r, now) ==
    CASE r = "cached" -> FromCache(trail)
      [] r = "fetched" ->
            [trail |-> _record_audit(trail, "ccxt_provider", "ohlcv", TRUE, now),
             raised |-> FALSE, data |-> "ok"]
      [] OTHER ->
            [trail |-> _record_audit(trail, "ccxt_provider", "markets", FALSE, now),
             raised |-> FALSE, data |-> "none"]

\* CoinGeckoPriceProvider.get_listing_data (through get_market_chart)
get_listing_data(trail, r, now) ==
    IF r = "cached" THEN FromCache(trail)
    ELSE _make_request(trail, "coingecko_price", "/market_chart", r, now)

\* CoinGeckoSupplyProvider.get_supply without a manual circulating supply
get_supply(trail, r, now) ==
    IF r = "cached" THEN FromCache(trail)
    ELSE _make_request(trail, "supply_provider", "/coins", r, now)

\* The CryptoRank providers search the project key and then fetch the
\* project unless it is cached; r = <<search response, fetch response>>.
ProjectLookup(trail, provider, r, now) ==
    LET search == _make_request(trail, provider, "/currencies", r[1], now)
    IN  IF search.raised \/ search.data = "none" THEN search
        ELSE IF r[2] = "cached" THEN FromCache(search.trail)
        ELSE _make_request(search.trail, provider, "/currencies/key", r[2], now)

\* CryptoRankFundraisingProvider.get_fundraising_by_coingecko_id
get_fundraising_by_coingecko_id(trail, r, now) ==
    ProjectLookup(trail, "fundraising_provider", r, now)

\* CryptoRankAllocationProvider.get_allocations_by_coingecko_id
get_allocations_by_coingecko_id(trail, r, now) ==
    ProjectLookup(trail, "allocation_provider", r, now)

RECURSIVE CollectFrom(_, _)
CollectFrom(trails, k) ==
    IF k = 0 THEN <<>> ELSE CollectFrom(trails, k - 1) \o trails[Providers[k]]

\* _collect_provider_audits: the orchestrator's entries extended by every
\* provider's trail, and every provider's trail cleared.
_collect_provider_audits(entries, trails) ==
    [_audit_entries |-> entries \o CollectFrom(trails, Len(Providers)),
     trails |-> [p \in DOMAIN trails |-> <<>>]]

NoPriceFlag ==
    DataQualityFlag("reference_price",
        "Could not determine initial listing price from any source", "error")

NoCirculatingFlag ==
    DataQualityFlag("circulating_supply",
        "Circulating supply at listing is unknown. Initial Market Cap cannot be calculated accurately.",
        "warning")

NoFundraisingFlag ==
    DataQualityFlag("fundraising",
        "No fundraising data available. FDV/Raised ratio cannot be calculated.", "info")

AllocationTotalFlag ==
    DataQualityFlag("allocation_total", "Allocations total outside the expected band",
        "warning")

NoAllocationsFlag ==
    DataQualityFlag("allocations", "No allocation data available from any source", "info")

\* analyze left by an exception: no result is built and the providers'
\* trails are not collected.
Raised(trails, entries, flags) ==
    [raised |-> TRUE, trails |-> trails, _audit_entries |-> entries,
     _quality_flags |-> flags, result |-> None]

\* TokenListingOrchestrator.analyze for the token resolved at time now, under
\* the responses rs of the remote services.
analyze(trails, rs, now) ==
    IF rs.resolve # "ok"
    THEN Raised(trails,
                <<AuditEntry("coingecko", "resolve", None, FALSE, now)>>, <<>>)
    ELSE
      LET resolved == <<AuditEntry("coingecko", "resolve", Some("/coins/id"), TRUE, now)>>
          ccxt == get_listings_all_exchanges(trails.ccxt_provider, rs.ccxt, now)
          cg == get_listing_data(trails.coingecko_price, rs.price, now)
          t2 == [trails EXCEPT !.ccxt_provider = ccxt.trail,
                               !.coingecko_price = cg.trail]
      IN  IF cg.raised THEN Raised(t2, resolved, <<>>)
          ELSE
            LET f3 == IF ccxt.data = "none" /\ cg.data = "none"
                      THEN <<NoPriceFlag>> ELSE <<>>
                supply == get_supply(t2.supply_provider, rs.supply, now)
                t4 == [t2 EXCEPT !.supply_provider = supply.trail]
            IN  IF supply.raised THEN Raised(t4, resolved, f3)
                ELSE
                  LET f4 == Append(f3, NoCirculatingFlag)
                      fund == get_fundraising_by_coingecko_id(
                                  t4.fundraising_provider, rs.fundraising, now)
                      f5 == IF ~fund.raised /\ fund.data # "ok"
                            THEN Append(f4, NoFundraisingFlag) ELSE f4
                      a5 == IF fund.raised
                            THEN Append(resolved,
                                     AuditEntry("cryptorank", "fetch_fundraising",
                                                None, FALSE, now))
                            ELSE resolved
                      alloc == get_allocations_by_coingecko_id(
                                   t4.allocation_provider, rs.allocations, now)
                      f7 == CASE alloc.raised \/ alloc.data = "none" ->
                                     Append(f5, NoAllocationsFlag)
                              [] alloc.data = "partial" -> Append(f5, AllocationTotalFlag)
                              [] OTHER -> f5
                      t7 == [t4 EXCEPT !.fundraising_provider = fund.trail,
                                       !.allocation_provider = alloc.trail]
                      collected == _collect_provider_audits(a5, t7)
                  IN  [raised |-> FALSE,
                       trails |-> collected.trails,
                       _audit_entries |-> collected._audit_entries,
                       _quality_flags |-> f7,
                       result |-> Some([token |-> now,
                                        audit_trail |-> collected._audit_entries,
                                        quality_flags |-> f7])]

\* ---- the remote services ----
ResolveResponses == {"ok", "error"}
ExchangeResponses == {"cached", "fetched", "no_pair"}
PriceResponses == {"ok", "not_found", "rate_limit"}
SupplyResponses == {"ok", "rate_limit", "error"}
FundraisingResponses == {<<"ok", "ok">>, <<"empty", "ok">>, <<"ok", "rate_limit">>}
AllocationResponses == {<<"ok", "ok">>, <<"ok", "partial">>, <<"rate_limit", "ok">>}

Responses ==
    [resolve : ResolveResponses, ccxt : ExchangeResponses, price : PriceResponses,
     supply : SupplyResponses, fundraising : FundraisingResponses,
     allocations : AllocationResponses]

\* A service that analyze does not reach is not asked: its response is the
\* first of its set.
Unasked ==
    [resolve |-> "ok", ccxt |-> "cached", price |-> "ok", supply |-> "ok",
     fundraising |-> <<"ok", "ok">>, allocations |-> <<"ok", "ok">>]

AsFarAsAsked(rs) ==
    /\ rs.resolve = "error" => rs.ccxt = Unasked.ccxt /\ rs.price = Unasked.price
    /\ (rs.resolve = "error" \/ rs.price = "rate_limit") => rs.supply = Unasked.supply
    /\ (rs.resolve = "error" \/ rs.price = "rate_limit" \/ rs.supply # "ok") =>
          /\ rs.fundraising = Unasked.fundraising
          /\ rs.allocations = Unasked.allocations

\* analyze_batch starts: results = [].
AnalyzeBatch ==
    /\ calls < MaxCalls
    /\ orch_op # "analyze_batch"
    /\ results' = <<>>
    /\ orch_op' = "analyze_batch"
    /\ UNCHANGED <<provider_audit_entries, _audit_entries, _quality_flags, responses,
                   calls, selvars, dexvars, valvars, mapvars, confvars, vestvars>>

\* One turn of analyze_batch's loop: analyze runs for the next identifier; its
\* result is appended, or its exception is logged and the token skipped.
Analyze ==
    /\ orch_op \in {"analyze_batch", "analyzed", "skipped"}
    /\ calls < MaxCalls
    /\ \E rs \in Responses :
          /\ AsFarAsAsked(rs)
          /\ LET run == analyze(provider_audit_entries, rs, calls + 1)
             IN  /\ provider_audit_entries' = run.trails
                 /\ _audit_entries' = run._audit_entries
                 /\ _quality_flags' = run._quality_flags
                 /\ results' = IF run.raised THEN results
                               ELSE Append(results, run.result[1])
                 /\ orch_op' = IF run.raised THEN "skipped" ELSE "analyzed"
          /\ responses' = Some(rs)
    /\ calls' = calls + 1
    /\ UNCHANGED <<selvars, dexvars, valvars, mapvars, confvars, vestvars>>

\* analyze_batch returns its results.
ReturnResults ==
    /\ orch_op \in {"analyzed", "skipped"}
    /\ orch_op' = "idle"
    /\ UNCHANGED <<provider_audit_entries, _audit_entries, _quality_flags, results,
                   responses, calls, selvars, dexvars, valvars, mapvars, confvars,
                   vestvars>>

NextOrch == AnalyzeBatch \/ Analyze \/ ReturnResults

SpecOrch == Init /\ [][NextOrch]_vars

(***************************************************************************)
(* Properties of PriceSelector.                                            *)
(***************************************************************************)
Indices(ls) == 1..Len(ls)

\* The listing of `ls` at index i is the one a returned price names.
IsSourceOf(l, r) ==
    /\ l.first_candle # None
    /\ r.source_exchange = l.exchange
    /\ r.source_pair = l.trading_pair
    /\ r.timestamp = l.first_candle[1].timestamp

\* Step 1 as the specification words it: data, a valid candle, and a known
\* volume is at least the minimum.
VolumeKnown(l) == l.first_candle # None /\ l.first_candle[1].volume_usd # None
VolumeOf(l) == l.first_candle[1].volume_usd[1]

PassesStep1(l) ==
    /\ l.first_candle # None
    /\ l.error = None
    /\ is_valid(l.first_candle[1])
    /\ (VolumeKnown(l) => VolumeOf(l) >= min_volume_usd)

\* C1: select returns None exactly when no input listing passes the step-1
\* filter (data, valid candle, volume floor); otherwise the returned price names
\* the venue, pair and timestamp of a listing that passed the filter.
C1_NoneIffNothingPasses ==
    op = "select" =>
        /\ (result = None) <=> (\A i \in Indices(listings) : ~PassesStep1(listings[i]))
        /\ result # None =>
              \E i \in Indices(listings) :
                  PassesStep1(listings[i]) /\ IsSourceOf(listings[i], result[1])

\* C2: a listing whose volume is known passes the filter only if the volume is
\* at least min_volume_usd, and select never returns a price taken from a
\* listing whose known volume is below the minimum (0 included).
C2_KnownVolumeAtLeastMinimum ==
    /\ \A i \in Indices(listings) :
          (VolumeKnown(listings[i]) /\ PassesFilter(listings[i]))
              => VolumeOf(listings[i]) >= min_volume_usd
    /\ (op = "select" /\ result # None) =>
          \A i \in Indices(listings) :
              (IsSourceOf(listings[i], result[1]) /\ VolumeKnown(listings[i]))
                  => VolumeOf(listings[i]) >= min_volume_usd

\* The k-th smallest of a list of numbers (k in 1..Len).
KthSmallest(prices, k) ==
    CHOOSE x \in {prices[i] : i \in Indices(prices)} :
        /\ Cardinality({i \in Indices(prices) : prices[i] < x}) < k
        /\ Cardinality({i \in Indices(prices) : prices[i] <= x}) >= k

\* Twice the median, by order statistics.
TwiceMedian(prices) ==
    KthSmallest(prices, (Len(prices) + 1) \div 2)
        + KthSmallest(prices, Len(prices) \div 2 + 1)

\* |open - median| / median * 100 <= max_price_deviation_pct
NotOutlier(l, ls) ==
    LET m2 == TwiceMedian(Opens(ls))
        d2 == 2 * OpenOf(l) - m2
    IN  /\ d2 * 100 <= max_price_deviation_pct * m2
        /\ (-d2) * 100 <= max_price_deviation_pct * m2

IsSubSeq(a, b) ==
    \E f \in [Indices(a) -> Indices(b)] :
        /\ \A i \in Indices(a) : a[i] = b[f[i]]
        /\ \A i, j \in Indices(a) : i < j => f[i] < f[j]

ValidNow == _filter_valid_listings(listings)

\* C3: outlier rejection returns the set unchanged below 3 valid listings; from
\* 3 on it returns exactly the listings whose open is within
\* max_price_deviation_pct of the median open, or the original set when that
\* is empty; the result is a non-empty subset of a non-empty input.
C3_OutlierRejection ==
    (op = "select" /\ ValidNow # <<>>) =>
        LET v == ValidNow
            r == _filter_outliers(v)
            kept == SelectSeq(v, LAMBDA l : NotOutlier(l, v))
        IN  /\ Len(v) < 3 => r = v
            /\ Len(v) >= 3 => r = (IF kept = <<>> THEN v ELSE kept)
            /\ r # <<>>
            /\ IsSubSeq(r, v)

\* A state where select met three or more valid listings and dropped an outlier.
C3_Witness ==
    /\ op = "select"
    /\ Len(ValidNow) >= 3
    /\ Len(_filter_outliers(ValidNow)) < Len(ValidNow)
    /\ result # None

\* A state where every one of four valid listings is an outlier and the
\* original set is kept.
C3_AllOutliersReached ==
    /\ op = "select"
    /\ Len(ValidNow) >= 3
    /\ SelectSeq(ValidNow, LAMBDA l : NotOutlier(l, ValidNow)) = <<>>

\* The candidates of select: survivors of both filters within one hour of the
\* earliest surviving timestamp.
Survivors == _filter_outliers(ValidNow)

EarliestOf(surv) ==
    CHOOSE t \in {TimestampOf(surv[i]) : i \in Indices(surv)} :
        \A i \in Indices(surv) : t <= TimestampOf(surv[i])

CandidateSet(surv, earliest) ==
    {surv[i] : i \in {j \in Indices(surv) : TimestampOf(surv[j]) <= earliest + OneHour}}

\* c is strictly better than s: earlier, or as early and stablecoin-quoted where
\* s is not, or equal on both and on a more reliable venue.
StrictlyBetter(c, s) ==
    \/ TimestampOf(c) < TimestampOf(s)
    \/ /\ TimestampOf(c) = TimestampOf(s)
       /\ _is_stablecoin_pair(c.trading_pair) /\ ~_is_stablecoin_pair(s.trading_pair)
    \/ /\ TimestampOf(c) = TimestampOf(s)
       /\ _is_stablecoin_pair(c.trading_pair) = _is_stablecoin_pair(s.trading_pair)
       /\ _get_exchange_reliability(c.exchange) > _get_exchange_reliability(s.exchange)

ExampleListings ==
    { l \in ListingUniverse :
        /\ l.exchange \in {"Binance", "okx", "mexc"}
        /\ l.first_candle # None
        /\ l.first_candle[1].timestamp = 0
        /\ l.first_candle[1].open \in {40, 41, 50} }

IsExampleInput ==
    /\ Len(listings) = 3
    /\ {listings[i] : i \in Indices(listings)} = ExampleListings

SelectedIsBest(r, cands) ==
    \E s \in cands :
        /\ IsSourceOf(s, r)
        /\ \A c \in cands : ~StrictlyBetter(c, s)

WithinFivePctOfTop5Mean(price) ==
    LET top == Opens(SubSeq(ValidNow, 1, Min2(5, Len(ValidNow))))
    IN  Abs(price * Len(top) - PriceScale * SumSeq(top)) * 100
            <= 5 * PriceScale * SumSeq(top)

\* C5: the confidence of a selected price is HIGH if (at least 3 valid listings
\* and the price is within 5% of the mean of the top-5 valid opens) or the
\* selected venue's reliability is at least 90, and MEDIUM in every other case.
C5_ConfidenceRule ==
    (op = "select" /\ result # None) =>
        LET r == result[1]
            high == \/ Len(ValidNow) >= 3 /\ WithinFivePctOfTop5Mean(r.price_usd)
                    \/ _get_exchange_reliability(r.source_exchange) >= 90
        IN  r.confidence = (IF high THEN "high" ELSE "medium")

\* The price a fallback listing gives under the method in force.
MethodInForce == IF method = None THEN self_method ELSE method[1]

FallbackHasData ==
    /\ coingecko_listing # None
    /\ coingecko_listing[1].first_candle # None
    /\ coingecko_listing[1].error = None

\* C6: select_with_fallback returns what select returns whenever that is a
\* price; otherwise, given a fallback listing with data, that listing's price
\* with confidence LOW, source "coingecko" and the note that exchange data was
\* unavailable; otherwise None.
C6_Fallback ==
    op = "select_with_fallback" =>
        LET s == select(listings, method)
        IN  /\ s # None => result = s
            /\ (s = None /\ FallbackHasData) =>
                  LET c == coingecko_listing[1].first_candle[1]
                  IN  /\ result # None
                      /\ result[1].price_usd = _get_price_from_candle(c, MethodInForce)
                      /\ result[1].timestamp = c.timestamp
                      /\ result[1].confidence = "low"
                      /\ result[1].source_exchange = "coingecko"
                      /\ result[1].notes = FallbackNotes
            /\ (s = None /\ ~FallbackHasData) => result = None

\* The fallback of a venue not named coingecko was used.
C6_Witness ==
    /\ op = "select_with_fallback"
    /\ select(listings, method) = None
    /\ FallbackHasData
    /\ coingecko_listing[1].exchange # "coingecko"
    /\ result # None
    /\ result[1].confidence = "low"

\* C7: every ReferencePrice select or select_with_fallback produces carries a
\* strictly positive price.
C7_PricePositive ==
    (op \in {"select", "select_with_fallback"} /\ result # None) =>
        result[1].price_usd > 0

\* The list with the elements at i and i + 1 exchanged.
SwapAt(ls, i) ==
    [k \in Indices(ls) |-> IF k = i THEN ls[i + 1] ELSE IF k = i + 1 THEN ls[i] ELSE ls[k]]

SameChoice(a, b) ==
    \/ a = None /\ b = None
    \/ /\ a # None /\ b # None
       /\ a[1].source_exchange = b[1].source_exchange
       /\ a[1].price_usd = b[1].price_usd
       /\ a[1].confidence = b[1].confidence

\* C8: select does not depend on the order of its input list: exchanging two
\* neighbours (the transpositions generate every permutation) leaves the
\* selected venue, price and confidence unchanged.
C8_OrderIndependent ==
    op = "select" =>
        \A i \in 1..(Len(listings) - 1) :
            SameChoice(select(SwapAt(listings, i), method), result)

(***************************************************************************)
(* Properties of DEX stabilization.                                        *)
(***************************************************************************)
SetMin(S) == CHOOSE x \in S : \A y \in S : x <= y
SetMax(S) == CHOOSE x \in S : \A y \in S : x >= y

\* (max - min) / min * 100 <= t / 10 over a non-empty set of positive prices
SetSpreadAtMost(S, t) == (SetMax(S) - SetMin(S)) * 1000 <= t * SetMin(S)
SetSpreadBelow(S, t) == (SetMax(S) - SetMin(S)) * 1000 < t * SetMin(S)

\* The average price a venue row reports: the sell price, else the buy price.
HasPositivePrice(dp) ==
    \/ dp.avg_sell_price # None /\ dp.avg_sell_price[1] > 0
    \/ /\ dp.avg_sell_price = None \/ dp.avg_sell_price[1] = 0
       /\ dp.avg_buy_price # None /\ dp.avg_buy_price[1] > 0

PositivePrice(dp) ==
    IF dp.avg_sell_price # None /\ dp.avg_sell_price[1] > 0
    THEN dp.avg_sell_price[1] ELSE dp.avg_buy_price[1]

QualifyingRows(h) ==
    { i \in 1..Len(hourly_prices) :
        /\ hourly_prices[i].hour = h
        /\ hourly_prices[i].swap_count >= min_swaps_per_dex
        /\ HasPositivePrice(hourly_prices[i]) }

\* Hour h of hourly_prices meets the convergence condition for n venues.
HourlyConverged(h, n) ==
    /\ Cardinality({hourly_prices[i].dex_program : i \in QualifyingRows(h)}) >= n
    /\ QualifyingRows(h) # {}
    /\ SetSpreadAtMost({PositivePrice(hourly_prices[i]) : i \in QualifyingRows(h)},
                       spread_threshold_pct)

QualifyingSwaps(h) ==
    { i \in 1..Len(swaps) : swaps[i].hour = h /\ swaps[i].avg_price > 0 }

\* Hour h of swaps meets it (the swap query has no swap floor beyond one swap).
SwapsConverged(h, n) ==
    /\ Cardinality({swaps[i].swap_program : i \in QualifyingSwaps(h)}) >= n
    /\ QualifyingSwaps(h) # {}
    /\ SetSpreadAtMost({swaps[i].avg_price : i \in QualifyingSwaps(h)},
                       spread_threshold_pct)

EarliestOrNone(res, converged) ==
    /\ (res = None) <=> (converged = {})
    /\ res # None =>
          /\ res[1].stabilization_hour \in converged
          /\ \A h \in converged : res[1].stabilization_hour <= h

C9_SwapsSecondHourReached ==
    /\ dex_op = "find_stabilization_hour"
    /\ dex_result # None
    /\ dex_result[1].stabilization_hour = 2
    /\ Cardinality(QualifyingSwaps(1)) >= min_dex_count

ResultPrices == {dex_result[1].dex_prices[d] : d \in DOMAIN dex_result[1].dex_prices}

\* The confidence the thresholds of the specification give.
StatedConfidence(n, S) ==
    IF SetSpreadBelow(S, 5) /\ n >= 4 THEN "HIGH"
    ELSE IF SetSpreadAtMost(S, 10) /\ n >= 3 THEN "MEDIUM"
    ELSE "LOW"

ConfidenceName(c) ==
    CASE c = "high" -> "HIGH"
      [] c = "medium" -> "MEDIUM"
      [] c = "low" -> "LOW"
      [] OTHER -> c

\* C10: the confidence of a stabilization result is HIGH when spread < 0.5% and
\* at least 4 venues qualify, MEDIUM when (not HIGH and) spread <= 1.0% and at
\* least 3 venues qualify, LOW otherwise.
C10_StabilizationConfidence ==
    (dex_op \in {"detect_stabilization", "find_stabilization_hour"} /\ dex_result # None) =>
        ConfidenceName(dex_result[1].confidence)
            = StatedConfidence(Cardinality(DOMAIN dex_result[1].dex_prices), ResultPrices)

\* C10 for detect_stabilization alone.
C10_DetectConfidence ==
    dex_op = "detect_stabilization" => C10_StabilizationConfidence

\* C10 for find_stabilization_hour alone.
C10_FindConfidence ==
    dex_op = "find_stabilization_hour" => C10_StabilizationConfidence

\* sum of price * swap_count over sum of swap_count, over the rows idx of rows
\* priced by priceOf, rounded to 1 / scale (scale is even, so the whole part
\* does not change which way a half is rounded).
WeightedOver(idx, priceOf, countOf, scale) ==
    LET RECURSIVE Sum(_, _)
        Sum(S, f) == IF S = {} THEN 0
                     ELSE LET i == CHOOSE x \in S : TRUE IN f[i] + Sum(S \ {i}, f)
        weighted == Sum(idx, [i \in idx |-> priceOf[i] * countOf[i]])
        total == Sum(idx, countOf)
    IN  (weighted \div total) * scale + RoundDiv((weighted % total) * scale, total)

HourlyWeightedAverage(h) ==
    WeightedOver(QualifyingRows(h),
                 [i \in QualifyingRows(h) |-> PositivePrice(hourly_prices[i])],
                 [i \in QualifyingRows(h) |-> hourly_prices[i].swap_count], Micro)

SwapsWeightedAverage(h) ==
    WeightedOver(QualifyingSwaps(h),
                 [i \in QualifyingSwaps(h) |-> swaps[i].avg_price],
                 [i \in QualifyingSwaps(h) |-> swaps[i].swap_count], TenThousandth)

\* C11 for find_stabilization_hour: the reference price is the
\* swap-count-weighted average of the qualifying prices of the hour and lies
\* between the least and the greatest of them.
C11_FindWeightedAverage ==
    (dex_op = "find_stabilization_hour" /\ dex_result # None) =>
        LET h == dex_result[1].stabilization_hour
            P == {swaps[i].avg_price : i \in QualifyingSwaps(h)}
        IN  /\ dex_result[1].reference_price = SwapsWeightedAverage(h)
            /\ SetMin(P) * TenThousandth <= dex_result[1].reference_price
            /\ dex_result[1].reference_price <= SetMax(P) * TenThousandth

\* C11 for detect_stabilization.
C11_DetectWeightedAverage ==
    (dex_op = "detect_stabilization" /\ dex_result # None) =>
        LET h == dex_result[1].stabilization_hour
            P == {PositivePrice(hourly_prices[i]) : i \in QualifyingRows(h)}
        IN  /\ dex_result[1].reference_price = HourlyWeightedAverage(h)
            /\ SetMin(P) * Micro <= dex_result[1].reference_price
            /\ dex_result[1].reference_price <= SetMax(P) * Micro

\* C11: the reference price of a stabilization result is the
\* swap-count-weighted average of the qualifying venues' prices at the
\* stabilization hour (sum of price * swap_count over sum of swap_count), and
\* so lies between the least and the greatest qualifying price of that hour.
C11_ReferenceIsWeightedAverage ==
    C11_FindWeightedAverage /\ C11_DetectWeightedAverage

\* C11, the bounds alone: whichever average is taken, the reference price lies
\* between the least and the greatest qualifying price.
C11_ReferenceWithinRange ==
    (dex_op \in {"detect_stabilization", "find_stabilization_hour"} /\ dex_result # None) =>
        LET scale == IF dex_op = "detect_stabilization" THEN Micro ELSE TenThousandth
            P == IF dex_op = "detect_stabilization"
                 THEN {PositivePrice(hourly_prices[i]) :
                          i \in QualifyingRows(dex_result[1].stabilization_hour)}
                 ELSE {swaps[i].avg_price :
                          i \in QualifyingSwaps(dex_result[1].stabilization_hour)}
        IN  /\ SetMin(P) * scale <= dex_result[1].reference_price
            /\ dex_result[1].reference_price <= SetMax(P) * scale

(***************************************************************************)
(* Properties of ValuationCalculator.                                      *)
(***************************************************************************)
\* The call whose result is in valuation was calculate on the inputs held.
Calculated == val_op = "calculate" /\ valuation # None

FDVNote == <<"FDV could not be calculated: missing supply or price data">>

HasNote(v, note) == \E i \in 1..Len(v.calculation_notes) : v.calculation_notes[i] = note

\* The FDV fields of v are those of supply x price when supply is given,
\* and the null outcome with its note otherwise.
FDVOutcome(v, supply, price_given) ==
    IF supply # None /\ price_given
    THEN /\ v.initial_fdv = Some(supply[1] * v.initial_price_usd)
         /\ v.fdv_confidence = "high"
    ELSE /\ v.initial_fdv = None
         /\ v.fdv_confidence = "unknown"
         /\ HasNote(v, FDVNote)

\* C12 as stated: the supply used for FDV is max_supply when present (not
\* null), otherwise total_supply; when that supply and the price are both
\* present, initial_fdv = supply x price with fdv_confidence HIGH; otherwise
\* initial_fdv is null, fdv_confidence is UNKNOWN and a note explains that FDV
\* could not be calculated.
C12_FDVFromPresentSupply ==
    Calculated =>
        LET sd == supply_data[1]
            supply == IF sd.max_supply # None THEN sd.max_supply ELSE sd.total_supply
        IN  FDVOutcome(valuation[1], supply, TRUE)

\* A supply or price counts when it is neither null nor zero.
Given(o) == o # None /\ o[1] # 0

\* C12 amended: the supply used for FDV is max_supply when it is neither null
\* nor zero, otherwise total_supply; when that supply and the price are both
\* neither null nor zero, initial_fdv = supply x price with fdv_confidence
\* HIGH; otherwise initial_fdv is null, fdv_confidence is UNKNOWN and a note
\* says that FDV could not be calculated.
C12_FDVFromGivenSupply ==
    Calculated =>
        LET sd == supply_data[1]
            supply == IF Given(sd.max_supply) THEN sd.max_supply ELSE sd.total_supply
        IN  FDVOutcome(valuation[1], IF Given(supply) THEN supply ELSE None,
                       reference_price # 0)

\* calculate took max_supply although a different total_supply was given too.
C12_Witness ==
    /\ Calculated
    /\ Given(supply_data[1].max_supply)
    /\ Given(supply_data[1].total_supply)
    /\ supply_data[1].max_supply # supply_data[1].total_supply
    /\ valuation[1].initial_fdv = Some(supply_data[1].max_supply[1] * reference_price)
    /\ reference_price # 0

\* calculate fell back to total_supply, and calculate left FDV null.
C12_FallbackReached ==
    /\ Calculated
    /\ supply_data[1].max_supply = None
    /\ Given(supply_data[1].total_supply)
    /\ valuation[1].initial_fdv = Some(supply_data[1].total_supply[1] * reference_price)
    /\ reference_price # 0

MarketCapNote ==
    <<"Market Cap could not be calculated: circulating supply at listing is unknown. Provide manual_circulating_supply for accurate calculation.">>

\* The market-cap fields of v are those of circulating x price when
\* circulating is given, and the null outcome with its note otherwise.
MarketCapOutcome(v, circulating, is_estimate) ==
    IF circulating # None
    THEN /\ v.initial_market_cap = Some(circulating[1] * v.initial_price_usd)
         /\ v.market_cap_confidence = (IF is_estimate THEN "low" ELSE "high")
    ELSE /\ v.initial_market_cap = None
         /\ v.market_cap_confidence = "unknown"
         /\ HasNote(v, MarketCapNote)

\* C13 as stated: initial_market_cap = circulating_supply_at_listing x price
\* when that figure is known (not null), with market_cap_confidence LOW if
\* circulating_supply_is_estimate and HIGH otherwise; when it is unknown,
\* initial_market_cap is null with confidence UNKNOWN and an explanatory note,
\* whatever circulating_supply_current is.
C13_MarketCapFromKnownSupply ==
    Calculated =>
        MarketCapOutcome(valuation[1], supply_data[1].circulating_supply_at_listing,
                         supply_data[1].circulating_supply_is_estimate)

\* C13 amended: initial_market_cap = circulating_supply_at_listing x price
\* when that figure and the price are neither null nor zero, with
\* market_cap_confidence LOW if circulating_supply_is_estimate and HIGH
\* otherwise; in every other case initial_market_cap is null with confidence
\* UNKNOWN and an explanatory note, and circulating_supply_current is never
\* used in its place.
C13_MarketCapFromGivenSupply ==
    Calculated =>
        MarketCapOutcome(valuation[1],
                         IF Given(supply_data[1].circulating_supply_at_listing)
                            /\ reference_price # 0
                         THEN supply_data[1].circulating_supply_at_listing ELSE None,
                         supply_data[1].circulating_supply_is_estimate)

\* The figure at listing was unknown while the current circulating supply and
\* the price were given: calculate left the market cap null.
C13_Witness ==
    /\ Calculated
    /\ supply_data[1].circulating_supply_at_listing = None
    /\ Given(supply_data[1].circulating_supply_current)
    /\ reference_price # 0
    /\ valuation[1].initial_market_cap = None

\* An estimated figure gave a market cap of LOW confidence.
C13_EstimateReached ==
    /\ Calculated
    /\ supply_data[1].circulating_supply_is_estimate
    /\ valuation[1].initial_market_cap # None
    /\ valuation[1].market_cap_confidence = "low"

\* r is the quotient a / b of two amounts, b # 0.
IsQuotient(r, a, b) == r[2] > 0 /\ r[1] * b = r[2] * a

\* C14: calculate sets fdv_to_raised_ratio = initial_fdv / total_raised when
\* both are positive and leaves it null otherwise (no fundraising data, no
\* total raised, a zero or negative raise, a null FDV); calc_fdv_to_raised
\* raises ValueError for total_raised <= 0 and returns fdv / total_raised
\* otherwise.
C14_RatioOnlyFromPositiveRaise ==
    /\ (val_op \in {"calculate", "calculate_with_manual_override"} /\ valuation # None) =>
          LET v == valuation[1]
              raised == TotalRaised(fundraising_data)
          IN  /\ v.total_raised_usd = raised
              /\ IF /\ v.initial_fdv # None /\ v.initial_fdv[1] > 0
                    /\ raised # None /\ raised[1] > 0
                 THEN /\ v.fdv_to_raised_ratio # None
                      /\ IsQuotient(v.fdv_to_raised_ratio[1], v.initial_fdv[1], raised[1])
                 ELSE v.fdv_to_raised_ratio = None
    /\ val_op = "calc_fdv_to_raised" =>
          LET a == formula_args[1]
              r == formula_result[1]
          IN  IF a.total_raised <= 0
              THEN "raised" \in DOMAIN r /\ r.raised = "ValueError"
              ELSE "returned" \in DOMAIN r /\ IsQuotient(r.returned, a.fdv, a.total_raised)

\* An FDV was computed and the total raised was negative: no ratio.
C14_Witness ==
    /\ Calculated
    /\ valuation[1].initial_fdv # None
    /\ TotalRaised(fundraising_data) # None
    /\ TotalRaised(fundraising_data)[1] < 0
    /\ valuation[1].fdv_to_raised_ratio = None

\* A ratio was produced by calculate.
C14_RatioReached ==
    /\ Calculated
    /\ valuation[1].fdv_to_raised_ratio = Some(<<25, 1>>)

\* calc_fdv_to_raised(10000, 100) = 100 and calc_fdv_to_raised(fdv, 0) raised.
C14_FormulaReached ==
    /\ val_op = "calc_fdv_to_raised"
    /\ \/ formula_args[1] = [fdv |-> 10000, total_raised |-> 100]
          /\ formula_result[1] = [returned |-> <<100, 1>>]
       \/ formula_args[1].total_raised = 0 /\ "raised" \in DOMAIN formula_result[1]

\* How the notes of each outcome begin.
FDVNoteHeads == {"FDV = ", "FDV could not be calculated: missing supply or price data"}
MarketCapNoteHeads == {"Market Cap = ", MarketCapNote[1]}
RatioNoteHeads == {"FDV/Raised = $", "FDV/Raised ratio not available: no fundraising data"}

HasNoteAbout(v, heads) ==
    \E i \in 1..Len(v.calculation_notes) : v.calculation_notes[i][1] \in heads

\* C15, the FDV and market-cap outcomes alone: each has a note for every input.
C15_FDVAndMarketCapNoted ==
    Calculated =>
        /\ HasNoteAbout(valuation[1], FDVNoteHeads)
        /\ HasNoteAbout(valuation[1], MarketCapNoteHeads)

\* C15: for every input, calculation_notes holds at least one note for the FDV
\* outcome, one for the market-cap outcome and one for the FDV/raised outcome,
\* whether the figure was computed or left null.
C15_EveryOutcomeNoted ==
    Calculated =>
        /\ HasNoteAbout(valuation[1], FDVNoteHeads)
        /\ HasNoteAbout(valuation[1], MarketCapNoteHeads)
        /\ HasNoteAbout(valuation[1], RatioNoteHeads)

Overridden == val_op = "calculate_with_manual_override" /\ valuation # None

\* sd with the manual figures put in place of its own wherever one is given
\* (not null).
Substituted(sd, mc, mt) ==
    [sd EXCEPT !.total_supply = IF mt # None THEN mt ELSE @,
               !.circulating_supply_at_listing = IF mc # None THEN mc ELSE @,
               !.circulating_supply_is_estimate = IF mc # None THEN FALSE ELSE @,
               !.estimation_method =
                   IF mc # None THEN Some("Manual override provided") ELSE @]

\* C16 as stated: calculate_with_manual_override substitutes the manual
\* circulating-at-listing and/or total supply and runs calculate; with a
\* manual circulating supply c the market cap is c x price with confidence
\* HIGH whatever the original flag was; with neither override the result is
\* that of calculate on the unmodified supply data.
C16_OverrideSubstitutes ==
    Overridden =>
        LET mc == manual[1].manual_circulating_supply
            mt == manual[1].manual_total_supply
            v == valuation[1]
        IN  /\ v = calculate(reference_price, Substituted(supply_data[1], mc, mt),
                             fundraising_data)
            /\ mc # None =>
                  /\ v.initial_market_cap = Some(mc[1] * reference_price)
                  /\ v.market_cap_confidence = "high"
            /\ (mc = None /\ mt = None) =>
                  v = calculate(reference_price, supply_data[1], fundraising_data)

\* C16 amended: a manual total supply that is not zero replaces total_supply
\* (the FDV still prefers a max_supply that is given); with a manual
\* circulating supply c the estimate flag is forced to false, so the market
\* cap is c x price with confidence HIGH whatever the original flag was when
\* c and the price are not zero, and null with confidence UNKNOWN when either
\* is zero; without a manual circulating supply the market cap is that of the
\* original figure and flag; with neither override the result is that of
\* calculate on the unmodified supply data.
C16_OverrideSubstitutesGiven ==
    Overridden =>
        LET mc == manual[1].manual_circulating_supply
            mt == manual[1].manual_total_supply
            sd == supply_data[1]
            v == valuation[1]
            total == IF Given(mt) THEN mt ELSE sd.total_supply
            supply == IF Given(sd.max_supply) THEN sd.max_supply ELSE total
            circulating == IF mc # None THEN mc ELSE sd.circulating_supply_at_listing
        IN  /\ FDVOutcome(v, IF Given(supply) THEN supply ELSE None, reference_price # 0)
            /\ MarketCapOutcome(v,
                  IF Given(circulating) /\ reference_price # 0 THEN circulating ELSE None,
                  IF mc # None THEN FALSE ELSE sd.circulating_supply_is_estimate)
            /\ (mc = None /\ mt = None) =>
                  v = calculate(reference_price, sd, fundraising_data)

\* A manual circulating supply replaced an estimated figure: the market cap
\* is c x price with confidence HIGH.
C16_Witness ==
    /\ Overridden
    /\ Given(manual[1].manual_circulating_supply)
    /\ supply_data[1].circulating_supply_is_estimate
    /\ supply_data[1].circulating_supply_at_listing
          # manual[1].manual_circulating_supply
    /\ valuation[1].initial_market_cap
          = Some(manual[1].manual_circulating_supply[1] * reference_price)
    /\ valuation[1].market_cap_confidence = "high"

\* A manual total supply alone changed the FDV.
C16_TotalOverrideReached ==
    /\ Overridden
    /\ manual[1].manual_circulating_supply = None
    /\ Given(manual[1].manual_total_supply)
    /\ valuation[1].initial_fdv
          = Some(manual[1].manual_total_supply[1] * reference_price)
    /\ valuation[1].initial_fdv
          # calculate(reference_price, supply_data[1], fundraising_data).initial_fdv

\* ---------------------------------------------------------------------------
\* Properties of AllocationMapper
\* ---------------------------------------------------------------------------

\* map_label has returned for label_arg and source_arg.
Mapped == map_op = "map_label" /\ map_result # None

\* The configuration holds an override for exactly this source and this
\* stripped label, and it names a canonical bucket.
OverrideApplies ==
    /\ source_arg \in DOMAIN source_overrides
    /\ strip(label_arg) \in DOMAIN source_overrides[source_arg]
    /\ IsCanonical(source_overrides[source_arg][strip(label_arg)])

\* C17: when the configuration holds an override for the source and the
\* stripped label that names a canonical bucket, map_label returns that bucket
\* with rule "source_override:<source>" and priority 100, whatever the
\* patterns say; otherwise (the overrides are for another source or another
\* label) it returns what it returns with no overrides configured at all.
C17_OverrideWins ==
    Mapped =>
        IF OverrideApplies
        THEN map_result[1] = <<source_overrides[source_arg][strip(label_arg)],
                                "source_override:" \o source_arg, 100>>
        ELSE map_result[1] = map_label(_compiled_patterns, <<>>, label_arg, source_arg)

\* An override to investors is applied to ' Team ' from cryptorank although
\* the patterns map the label to team_founder.
C17_Witness ==
    /\ Mapped
    /\ label_arg = TeamPadded /\ source_arg = "cryptorank"
    /\ OverrideApplies
    /\ map_result[1] = <<"investors", "source_override:cryptorank", 100>>
    /\ map_label(_compiled_patterns, <<>>, label_arg, source_arg)[1] = "team_founder"

\* The same label from another source, and another label from the same
\* source, are mapped by the patterns although overrides are configured.
C17_OtherSourceReached ==
    /\ Mapped
    /\ source_overrides # <<>>
    /\ label_arg = Team /\ source_arg = "coingecko"
    /\ map_result[1][1] = "team_founder"

C17_OtherLabelReached ==
    /\ Mapped
    /\ source_overrides # <<>>
    /\ label_arg = CommunitySaleLower /\ source_arg = "cryptorank"
    /\ map_result[1][1] = "public_sales"

\* The positions in the compiled table of the patterns of canonical buckets
\* that match the stripped label, whatever its case.
MatchingPatterns ==
    {i \in 1..Len(_compiled_patterns) :
        /\ IsCanonical(_compiled_patterns[i].bucket_name)
        /\ Search(_compiled_patterns[i].pattern, LowerSeq(strip(label_arg)))}

\* The candidates no other candidate outranks.
TopMatching ==
    {i \in MatchingPatterns :
        \A j \in MatchingPatterns : _compiled_patterns[j].priority <= _compiled_patterns[i].priority}

\* The top candidate registered first.
FirstTop == CHOOSE i \in TopMatching : \A j \in TopMatching : i <= j

\* C18: without an applicable override, map_label returns the bucket, the
\* pattern and the priority of a matching pattern of maximal priority, the one
\* registered first in the rule table when several share that priority; when
\* no pattern matches it returns unknown with rule "no_match" and priority 0.
C18_HighestPriorityFirstRegistered ==
    (Mapped /\ ~OverrideApplies) =>
        IF MatchingPatterns = {}
        THEN map_result[1] = <<"unknown", "no_match", 0>>
        ELSE map_result[1] = <<_compiled_patterns[FirstTop].bucket_name,
                                _compiled_patterns[FirstTop].pattern.pattern,
                                _compiled_patterns[FirstTop].priority>>

\* Patterns of two buckets match with the same maximal priority, and the
\* bucket registered first is returned.
C18_Witness ==
    /\ Mapped /\ ~OverrideApplies
    /\ \E i, j \in TopMatching :
          /\ i < j
          /\ _compiled_patterns[i].bucket_name # _compiled_patterns[j].bucket_name
          /\ map_result[1][1] = _compiled_patterns[i].bucket_name

\* A pattern registered later outranks one registered earlier.
C18_LaterOutranksReached ==
    /\ Mapped /\ ~OverrideApplies
    /\ \E i, j \in MatchingPatterns :
          /\ i < j
          /\ _compiled_patterns[i].priority < _compiled_patterns[j].priority
          /\ map_result[1][1] = _compiled_patterns[j].bucket_name
          /\ map_result[1][1] # _compiled_patterns[i].bucket_name

\* No pattern matches the label.
C18_NoMatchReached ==
    /\ Mapped /\ ~OverrideApplies
    /\ MatchingPatterns = {}
    /\ map_result[1] = <<"unknown", "no_match", 0>>

\* A pattern registered under a name that is no canonical bucket matches with
\* the highest priority and is passed over.
C18_ForeignNameReached ==
    /\ Mapped /\ ~OverrideApplies
    /\ MatchingPatterns # {}
    /\ \E i \in 1..Len(_compiled_patterns) :
          /\ ~IsCanonical(_compiled_patterns[i].bucket_name)
          /\ Search(_compiled_patterns[i].pattern, LowerSeq(strip(label_arg)))
          /\ _compiled_patterns[i].priority > map_result[1][3]

\* The mapper was built from the default rule table and no override applies.
DefaultTable == rules = DEFAULT_MAPPING_RULES /\ ~OverrideApplies

\* The buckets intended for the labels that touch two buckets, in the cases
\* they are written in.
IntendedBucket ==
    (CommunitySale :> "public_sales") @@ (CommunitySaleLower :> "public_sales")
    @@ (DevelopmentTeam :> "team_founder")
    @@ (DAOTreasury :> "treasury_reserve") @@ (StrategicReserve :> "treasury_reserve")
    @@ (PrivateSale :> "investors") @@ (PrivateSaleUpper :> "investors")
    @@ (StrategicRound :> "investors")
    @@ (Team :> "team_founder") @@ (TeamUpper :> "team_founder")

\* C19: under the default rule table 'Community Sale' maps to public_sales,
\* 'Development Team' to team_founder, 'DAO Treasury' and 'Strategic Reserve'
\* to treasury_reserve, 'Private Sale' and 'Strategic Round' to investors and
\* 'Team' to team_founder, in upper and lower case alike.
C19_DefaultTableResolves ==
    (Mapped /\ DefaultTable /\ label_arg \in DOMAIN IntendedBucket) =>
        map_result[1][1] = IntendedBucket[label_arg]

\* 'Community Sale' is mapped under the default table, where the pattern of
\* community_rewards starts with the same word.
C19_Witness ==
    /\ Mapped /\ DefaultTable
    /\ label_arg = CommunitySale
    /\ map_result[1][1] = "public_sales"
    /\ \E i \in 1..Len(_compiled_patterns) :
          /\ _compiled_patterns[i].bucket_name = "community_rewards"
          /\ StartsWith(LowerSeq(label_arg), _compiled_patterns[i].pattern.prefix)
          /\ ~Search(_compiled_patterns[i].pattern, LowerSeq(label_arg))

\* 'PRIVATE SALE' in upper case is mapped under the default table.
C19_UpperCaseReached ==
    /\ Mapped /\ DefaultTable
    /\ label_arg = PrivateSaleUpper
    /\ label_arg # LowerSeq(label_arg)
    /\ map_result[1][1] = "investors"

\* 'Development Team' starts like a pattern of ecosystem_rd, which the
\* pattern's negative lookahead keeps from matching.
C19_DevelopmentTeamReached ==
    /\ Mapped /\ DefaultTable
    /\ label_arg = DevelopmentTeam
    /\ map_result[1][1] = "team_founder"
    /\ \E i \in 1..Len(_compiled_patterns) :
          /\ _compiled_patterns[i].bucket_name = "ecosystem_rd"
          /\ StartsWith(LowerSeq(label_arg), _compiled_patterns[i].pattern.prefix)
          /\ i \notin MatchingPatterns

\* map_allocations has returned for raw_allocations.
Aggregation == map_op = "map_allocations" /\ allocation_data # None

\* The percentages of a sequence of raw allocations.
PercentagesOf(raws) == [i \in 1..Len(raws) |-> raws[i].percentage]

\* The sum of all non-null raw percentages.
RawTotal == SumGiven(PercentagesOf(raw_allocations))

\* The raw allocations that map_label resolves to bucket b.
ResolvedTo(resolved, b) ==
    [n \in 1..Len(ItemsOf(resolved, b, 1)) |-> raw_allocations[ItemsOf(resolved, b, 1)[n]]]

\* Every bucket some raw allocation resolves to is listed once, no other
\* bucket is, and a listed bucket's percentage is the sum of the non-null
\* percentages of its raw allocations, null when none has one.
BucketsConserve(resolved) ==
    LET mapped == allocation_data[1].mapped_allocations
    IN  /\ \A i \in 1..Len(resolved) :
              \E k \in 1..Len(mapped) : mapped[k].canonical_bucket = resolved[i][1]
        /\ \A k, l \in 1..Len(mapped) :
              mapped[k].canonical_bucket = mapped[l].canonical_bucket => k = l
        /\ \A k \in 1..Len(mapped) :
              LET pcts == PercentagesOf(ResolvedTo(resolved, mapped[k].canonical_bucket))
              IN  /\ pcts # <<>>
                  /\ mapped[k].percentage =
                        IF \A n \in 1..Len(pcts) : pcts[n] = None THEN None
                        ELSE Some(SumGiven(pcts))

\* The buckets' percentages add up to the sum of all non-null raw percentages.
BucketsAddUp ==
    SumGiven([k \in 1..Len(allocation_data[1].mapped_allocations) |->
                 allocation_data[1].mapped_allocations[k].percentage]) = RawTotal

PercentagesConserved ==
    /\ BucketsConserve(ResolveAll(_compiled_patterns, source_overrides, raw_allocations))
    /\ BucketsAddUp
    /\ allocation_data[1].is_complete <=> (95 <= RawTotal /\ RawTotal <= 105)

\* C20, as stated: every bucket's percentage is the sum of the non-null
\* percentages of the raw allocations resolved to it (null when none has
\* one), total_percentage is the sum over the buckets and the sum of all
\* non-null raw percentages, and is_complete holds exactly when that total
\* lies between 95 and 105.
C20_TotalIsTheSum ==
    Aggregation =>
        /\ PercentagesConserved
        /\ allocation_data[1].total_percentage = Some(RawTotal)

\* C20, amended: as above, but total_percentage is that sum only when the
\* sum is positive and null when it is zero.
C20_TotalIsThePositiveSum ==
    Aggregation =>
        /\ PercentagesConserved
        /\ allocation_data[1].total_percentage =
              IF RawTotal > 0 THEN Some(RawTotal) ELSE None

\* Two raw allocations are added up in one bucket, a third one stands in
\* another, and the three sum to 95: the set is complete.
C20_Witness ==
    /\ Aggregation
    /\ Len(raw_allocations) = 3
    /\ Len(allocation_data[1].mapped_allocations) = 2
    /\ allocation_data[1].mapped_allocations[1].percentage = Some(80)
    /\ allocation_data[1].total_percentage = Some(95)
    /\ allocation_data[1].is_complete

\* A set summing to 80 is not complete.
C20_IncompleteReached ==
    /\ Aggregation
    /\ RawTotal = 80
    /\ allocation_data[1].total_percentage = Some(80)
    /\ ~allocation_data[1].is_complete

\* A set summing to 97 is complete.
C20_CompleteReached ==
    /\ Aggregation
    /\ RawTotal = 97
    /\ allocation_data[1].total_percentage = Some(97)
    /\ allocation_data[1].is_complete

\* A set summing to more than 105 is not complete.
C20_ExcessReached ==
    /\ Aggregation
    /\ RawTotal > 105
    /\ allocation_data[1].total_percentage = Some(RawTotal)
    /\ ~allocation_data[1].is_complete

\* A bucket none of whose raw allocations has a percentage stands next to one
\* that has.
C20_NullBucketReached ==
    /\ Aggregation
    /\ \E k, l \in 1..Len(allocation_data[1].mapped_allocations) :
          /\ allocation_data[1].mapped_allocations[k].percentage = None
          /\ allocation_data[1].mapped_allocations[l].percentage # None

\* A bucket holds a percentage of zero and total_percentage is null.
C20_ZeroTotalReached ==
    /\ Aggregation
    /\ raw_allocations # <<>>
    /\ \E k \in 1..Len(allocation_data[1].mapped_allocations) :
          allocation_data[1].mapped_allocations[k].percentage = Some(0)
    /\ allocation_data[1].total_percentage = None

\* The mapped allocations name every bucket some raw allocation resolves to,
\* each once, and no other bucket.
BucketsListedOnce(resolved) ==
    LET mapped == allocation_data[1].mapped_allocations
    IN  /\ \A k, l \in 1..Len(mapped) :
              mapped[k].canonical_bucket = mapped[l].canonical_bucket => k = l
        /\ \A n \in 1..Len(CanonicalBucket) :
              (\E k \in 1..Len(mapped) : mapped[k].canonical_bucket = CanonicalBucket[n])
              <=> (\E i \in 1..Len(resolved) : resolved[i][1] = CanonicalBucket[n])

\* The mapped allocations follow the order of CanonicalBucket.
InDisplayOrder ==
    LET mapped == allocation_data[1].mapped_allocations
    IN  \A k, l \in 1..Len(mapped) :
            k < l => bucket_order(mapped[k].canonical_bucket)
                     < bucket_order(mapped[l].canonical_bucket)

\* C21: the mapped allocations returned by map_allocations hold each canonical
\* bucket at most once, hold a bucket exactly when a raw allocation resolves
\* to it, and are listed in the order of CanonicalBucket (team_founder first,
\* unknown last) whatever the input order and the magnitudes; raw_allocations
\* is returned as it was given.
C21_BucketsOnceInDisplayOrder ==
    Aggregation =>
        /\ BucketsListedOnce(ResolveAll(_compiled_patterns, source_overrides, raw_allocations))
        /\ InDisplayOrder
        /\ allocation_data[1].raw_allocations = raw_allocations

\* Three raw allocations given in the opposite of the display order, the
\* first of them with the smallest percentage, come out in display order.
C21_Witness ==
    /\ Aggregation
    /\ Len(raw_allocations) = 3
    /\ Len(allocation_data[1].mapped_allocations) = 3
    /\ \A i \in 1..3 :
          allocation_data[1].mapped_allocations[i].original_labels
              = {raw_allocations[4 - i].label}
    /\ raw_allocations[1].percentage = Some(8)
    /\ allocation_data[1].mapped_allocations[3].canonical_bucket = "unknown"
    /\ allocation_data[1].mapped_allocations[1].canonical_bucket = "team_founder"
    /\ InDisplayOrder

\* Two raw allocations of one bucket are separated by one of another bucket
\* and the bucket is listed once.
C21_SharedBucketReached ==
    /\ Aggregation
    /\ Len(raw_allocations) = 3
    /\ Len(allocation_data[1].mapped_allocations) = 2
    /\ raw_allocations[1].label # raw_allocations[3].label
    /\ \E k \in 1..2 :
          allocation_data[1].mapped_allocations[k].original_labels
              = {raw_allocations[1].label, raw_allocations[3].label}

\* The orderings of the raw allocations given to map_allocations.
Orderings ==
    {[i \in 1..Len(raw_allocations) |-> raw_allocations[f[i]]] :
        f \in Permutations(1..Len(raw_allocations))}

\* The mapped allocations map_allocations returns for an ordering.
MappedFor(raws) ==
    map_allocations(_compiled_patterns, source_overrides, raws).mapped_allocations

\* A mapped allocation without its vesting terms and its rule description.
Summed(m) ==
    [canonical_bucket |-> m.canonical_bucket, original_labels |-> m.original_labels,
     percentage |-> m.percentage, amount |-> m.amount, sources |-> m.sources,
     confidence |-> m.confidence]

SummedAll(mapped) == [k \in 1..Len(mapped) |-> Summed(mapped[k])]

\* C22: map_allocations on any ordering of the same raw allocations returns
\* the mapped allocations it returned for the given one: the same buckets,
\* percentages, amounts, label and source sets, vesting terms and confidence.
C22_OrderIndependent ==
    Aggregation =>
        \A raws \in Orderings :
            MappedFor(raws) = allocation_data[1].mapped_allocations

\* C22 without the vesting terms: buckets, percentages, amounts, label and
\* source sets and confidence are the same for every ordering.
C22_SumsOrderIndependent ==
    Aggregation =>
        \A raws \in Orderings :
            SummedAll(MappedFor(raws)) = SummedAll(allocation_data[1].mapped_allocations)

\* Two raw allocations of one bucket carry different vesting terms, and the
\* other ordering gives the bucket the other terms.
C22_VestingDependsOnOrder ==
    /\ Aggregation
    /\ Len(raw_allocations) = 2
    /\ Len(allocation_data[1].mapped_allocations) = 1
    /\ raw_allocations[1].vesting # None
    /\ raw_allocations[2].vesting # None
    /\ allocation_data[1].mapped_allocations[1].vesting = raw_allocations[1].vesting
    /\ MappedFor(<<raw_allocations[2], raw_allocations[1]>>)[1].vesting
          = raw_allocations[2].vesting
    /\ raw_allocations[1].vesting # raw_allocations[2].vesting

\* ---------------------------------------------------------------------------
\* Properties of ConflictDetector
\* ---------------------------------------------------------------------------

\* detect_conflicts has returned for allocation_data.
Detected == conf_op = "detect_conflicts" /\ conflicts # None

\* Bucket, source and percentage of every raw allocation with a percentage,
\* the bucket being the one map_label resolves it to.
RECURSIVE AsResolved(_, _)
AsResolved(raws, resolved) ==
    IF raws = <<>> THEN <<>>
    ELSE (IF Head(raws).percentage = None THEN <<>>
          ELSE <<[bucket |-> Head(resolved)[1], source |-> Head(raws).source,
                  percentage |-> Head(raws).percentage[1]]>>)
         \o AsResolved(Tail(raws), Tail(resolved))

\* The sources that back bucket b with a percentage.
Backers(entries, b) ==
    {entries[i].source : i \in {j \in 1..Len(entries) : entries[j].bucket = b}}

\* The percentages a source gives for bucket b, added up.
BackedSum(entries, b, src) ==
    SumOver([i \in 1..Len(entries) |-> entries[i].percentage],
            {i \in 1..Len(entries) : entries[i].bucket = b /\ entries[i].source = src})

\* The difference between the largest and the smallest per-source sum.
Spread(entries, b) ==
    LET sums == {BackedSum(entries, b, src) : src \in Backers(entries, b)}
    IN  (CHOOSE hi \in sums : \A v \in sums : v <= hi)
        - (CHOOSE lo \in sums : \A v \in sums : lo <= v)

\* The conflicts are those of the buckets that at least two sources back
\* with sums further apart than the threshold, one for each, and each
\* carries every per-source sum and the difference.
ConflictsAreOf(entries) ==
    /\ \A n \in 1..Len(CanonicalBucket) :
          (\E k \in 1..Len(conflicts[1]) :
              conflicts[1][k].canonical_bucket = CanonicalBucket[n])
          <=> /\ Cardinality(Backers(entries, CanonicalBucket[n])) >= 2
              /\ Spread(entries, CanonicalBucket[n]) > percentage_threshold
    /\ \A k, l \in 1..Len(conflicts[1]) :
          conflicts[1][k].canonical_bucket = conflicts[1][l].canonical_bucket => k = l
    /\ \A k \in 1..Len(conflicts[1]) :
          LET c == conflicts[1][k]
          IN  /\ InvolvedSet(c) = Backers(entries, c.canonical_bucket)
              /\ DOMAIN c.values = Backers(entries, c.canonical_bucket)
              /\ \A src \in DOMAIN c.values :
                    c.values[src] = BackedSum(entries, c.canonical_bucket, src)
              /\ c.discrepancy_pct = Spread(entries, c.canonical_bucket)

\* C23: detect_conflicts emits a Conflict for a bucket exactly when at least
\* two distinct sources back that bucket and the largest and the smallest
\* per-source percentage sum differ by more than the threshold; the Conflict
\* carries every per-source sum and that difference, and there is at most one
\* Conflict per bucket.  A raw allocation backs the bucket map_allocations
\* resolved it to.
C23_ConflictExactlyWhenSourcesDisagree ==
    (Detected /\ bucket_map_arg = None) =>
        ConflictsAreOf(AsResolved(raw_allocations,
                                  ResolveAll(_compiled_patterns, source_overrides,
                                             raw_allocations)))

\* The same, a raw allocation backing the bucket detect_conflicts files it
\* under, whether looked up in a bucket_map or in the mapped allocations.
C23_ConflictsOfBucketsAsFiled ==
    Detected =>
        ConflictsAreOf(Filed(allocation_data[1], bucket_map_arg, raw_allocations))

\* 15% against 22% for investors: one conflict of 7.
C23_ConflictReached ==
    /\ Detected /\ bucket_map_arg = None
    /\ percentage_threshold = 5
    /\ Len(raw_allocations) = 2
    /\ conflicts[1] = <<AllocationConflict("investors", <<"cryptorank", "coingecko">>,
                                            ("cryptorank" :> 15) @@ ("coingecko" :> 22),
                                            7, None, None)>>

\* 15% against 18% for investors: no conflict under a threshold of 5, and
\* none under a threshold of 3.
C23_BelowThresholdReached ==
    /\ Detected /\ bucket_map_arg = None
    /\ percentage_threshold = 5
    /\ Len(raw_allocations) = 2
    /\ raw_allocations[1].percentage = Some(15)
    /\ raw_allocations[2].percentage = Some(18)
    /\ allocation_data[1].mapped_allocations[1].sources = {"cryptorank", "dropstab"}
    /\ conflicts[1] = <<>>

C23_AtThresholdReached ==
    /\ Detected /\ bucket_map_arg = None
    /\ percentage_threshold = 3
    /\ Len(raw_allocations) = 2
    /\ raw_allocations[1].percentage = Some(15)
    /\ raw_allocations[2].percentage = Some(18)
    /\ allocation_data[1].mapped_allocations[1].sources = {"cryptorank", "dropstab"}
    /\ conflicts[1] = <<>>

\* A source's two allocations of one bucket are added up before comparing.
C23_SummedReached ==
    /\ Detected /\ bucket_map_arg = None
    /\ \E k \in 1..Len(conflicts[1]) :
          /\ conflicts[1][k].canonical_bucket = "investors"
          /\ "cryptorank" \in DOMAIN conflicts[1][k].values
          /\ conflicts[1][k].values["cryptorank"] = 55

\* A conflict is reported for team_founder, which only one source backs: the
\* other 'Team' is resolved to investors by an override.
C23_MisfiledConflictReached ==
    /\ Detected /\ bucket_map_arg = None
    /\ Len(raw_allocations) = 2
    /\ raw_allocations[1].label = raw_allocations[2].label
    /\ Len(allocation_data[1].mapped_allocations) = 2
    /\ Len(conflicts[1]) = 1
    /\ conflicts[1][1].canonical_bucket = "team_founder"
    /\ allocation_data[1].mapped_allocations[1].canonical_bucket = "team_founder"
    /\ allocation_data[1].mapped_allocations[1].sources = {"coingecko"}

\* C28: detect_conflicts called without a bucket_map files every raw
\* allocation under the bucket map_allocations resolved it to, for every rule
\* configuration.
C28_FiledAsResolved ==
    (Detected /\ bucket_map_arg = None) =>
        Filed(allocation_data[1], None, raw_allocations)
            = AsResolved(raw_allocations,
                         ResolveAll(_compiled_patterns, source_overrides, raw_allocations))

\* C28 where no override is configured: the raw allocations are filed as
\* resolved.
C28_FiledAsResolvedWithoutOverrides ==
    (Detected /\ bucket_map_arg = None /\ source_overrides = <<>>) =>
        Filed(allocation_data[1], None, raw_allocations)
            = AsResolved(raw_allocations,
                         ResolveAll(_compiled_patterns, source_overrides, raw_allocations))

\* 'Team' from cryptorank is resolved to investors by an override and 'Team'
\* from coingecko to team_founder by the patterns; detect_conflicts files
\* both under team_founder.
C28_MisfiledReached ==
    /\ Detected /\ bucket_map_arg = None
    /\ Len(raw_allocations) = 2
    /\ raw_allocations[1].label = Team /\ raw_allocations[1].source = "cryptorank"
    /\ raw_allocations[2].label = Team /\ raw_allocations[2].source = "coingecko"
    /\ map_label(_compiled_patterns, source_overrides, Team, "cryptorank")[1] = "investors"
    /\ map_label(_compiled_patterns, source_overrides, Team, "coingecko")[1] = "team_founder"
    /\ \A i \in 1..2 :
          Filed(allocation_data[1], None, raw_allocations)[i].bucket = "team_founder"

\* detect_total_issues has returned for allocation_data.
TotalsChecked == conf_op = "detect_total_issues" /\ issues # None

\* The sources of the raw allocations, and those that give a percentage.
SourcesReported == {raw_allocations[i].source : i \in 1..Len(raw_allocations)}

HasPercentage(src) ==
    \E i \in 1..Len(raw_allocations) :
        raw_allocations[i].source = src /\ raw_allocations[i].percentage # None

\* The percentages a source reports, added up.
ReportedTotal(src) ==
    SumOver([i \in 1..Len(raw_allocations) |->
                IF raw_allocations[i].percentage = None THEN 0
                ELSE raw_allocations[i].percentage[1]],
            {i \in 1..Len(raw_allocations) : raw_allocations[i].source = src})

\* The messages that name a source.
MessagesAbout(src) == {k \in 1..Len(issues[1]) : issues[1][k][2] = src}

\* C24: detect_total_issues returns exactly one message for each source whose
\* summed percentages lie strictly below total_allocation_min (a message that
\* the total is below the minimum) or strictly above total_allocation_max (one
\* that it exceeds the maximum), none for a source inside the band, bounds
\* included, or without a percentage, and none about anything else; the
\* allocation data is as it was.
C24_OneMessagePerSourceOutsideBand ==
    TotalsChecked =>
        /\ \A src \in SourcesReported :
              IF HasPercentage(src) /\ ReportedTotal(src) < total_allocation_min
              THEN \E k \in 1..Len(issues[1]) :
                      /\ MessagesAbout(src) = {k}
                      /\ issues[1][k] = BelowMessage(src, ReportedTotal(src),
                                                     total_allocation_min)
              ELSE IF HasPercentage(src) /\ ReportedTotal(src) > total_allocation_max
              THEN \E k \in 1..Len(issues[1]) :
                      /\ MessagesAbout(src) = {k}
                      /\ issues[1][k] = AboveMessage(src, ReportedTotal(src),
                                                     total_allocation_max)
              ELSE MessagesAbout(src) = {}
        /\ \A k \in 1..Len(issues[1]) : issues[1][k][2] \in SourcesReported
        /\ allocation_data[1].raw_allocations = raw_allocations

\* One source is below the default band, one inside it and one has no
\* percentage: one message.
C24_Witness ==
    /\ TotalsChecked
    /\ total_allocation_min = 95 /\ total_allocation_max = 105
    /\ Len(raw_allocations) = 3
    /\ \E below, inside, silent \in SourcesReported :
          /\ HasPercentage(below) /\ ReportedTotal(below) < 95
          /\ HasPercentage(inside) /\ ReportedTotal(inside) = 100
          /\ ~HasPercentage(silent)
          /\ Len(issues[1]) = 1
          /\ issues[1][1] = BelowMessage(below, ReportedTotal(below), 95)

\* A source above a band of 30 to 60.
C24_AboveReached ==
    /\ TotalsChecked
    /\ total_allocation_min = 30 /\ total_allocation_max = 60
    /\ issues[1] = <<AboveMessage("messari", 100, 60)>>

\* A source whose total equals the minimum gets no message.
C24_AtMinimumReached ==
    /\ TotalsChecked
    /\ \E src \in SourcesReported :
          /\ HasPercentage(src)
          /\ ReportedTotal(src) = total_allocation_min
          /\ MessagesAbout(src) = {}
    /\ issues[1] # <<>>

\* suggest_resolution has returned for conflict_arg and preferred_arg.
Suggested == conf_op = "suggest_resolution" /\ suggestion # None

\* The positions in a preference list of the sources that are involved in
\* the conflict.
InvolvedIn(preference) ==
    {i \in 1..Len(preference) : preference[i] \in InvolvedSet(conflict_arg[1])}

\* How far the value of the involved source at position i lies from the mean
\* of all values, times the number of values.
FromMean(i) ==
    LET values == conflict_arg[1].values
    IN  Abs(values[conflict_arg[1].sources_involved[i]] * Cardinality(DOMAIN values)
            - SumOver(values, DOMAIN values))

\* The earliest involved source among those closest to the mean.
ClosestInvolved ==
    LET n == Len(conflict_arg[1].sources_involved)
    IN  conflict_arg[1].sources_involved[
            CHOOSE i \in 1..n :
                /\ \A j \in 1..n : FromMean(i) <= FromMean(j)
                /\ \A j \in 1..(i - 1) : FromMean(j) > FromMean(i)]

\* The source to prefer under a preference list.
PreferredUnder(preference) ==
    IF InvolvedIn(preference) # {}
    THEN preference[CHOOSE i \in InvolvedIn(preference) :
                        \A j \in InvolvedIn(preference) : i <= j]
    ELSE ClosestInvolved

\* The returned conflict repeats the input's bucket, sources, values and
\* discrepancy, the input is as detect_conflicts returned it, and the
\* resolution names the given source and its value.
SuggestionFor(src) ==
    /\ suggestion[1].canonical_bucket = conflict_arg[1].canonical_bucket
    /\ suggestion[1].sources_involved = conflict_arg[1].sources_involved
    /\ suggestion[1].values = conflict_arg[1].values
    /\ suggestion[1].discrepancy_pct = conflict_arg[1].discrepancy_pct
    /\ \E k \in 1..Len(conflicts[1]) : conflicts[1][k] = conflict_arg[1]
    /\ conflict_arg[1].resolution = None /\ conflict_arg[1].preferred_source = None
    /\ suggestion[1].preferred_source = Some(src)
    /\ suggestion[1].resolution
          = Some(<<"Suggested: use ", src, " value (", conflict_arg[1].values[src], "%)">>)

\* C25: suggest_resolution returns a new Conflict with the input's bucket,
\* sources_involved, values and discrepancy, the input being left as it was;
\* its preferred_source is the first source of the preference list (manual,
\* cryptorank, coingecko when no list is given) that is involved or, when
\* none of the list is involved, the involved source whose value is closest
\* to the mean of all values, the earliest on equal distance; the resolution
\* text names that source and its value.
C25_PreferredSourceFromList ==
    Suggested =>
        SuggestionFor(PreferredUnder(IF preferred_arg = None
                                     THEN <<"manual", "cryptorank", "coingecko">>
                                     ELSE preferred_arg[1]))

\* C25 for the calls that give no preference list or one that is not empty.
C25_PreferredSourceFromNonEmptyList ==
    (Suggested /\ preferred_arg # Some(<<>>)) =>
        SuggestionFor(PreferredUnder(IF preferred_arg = None
                                     THEN <<"manual", "cryptorank", "coingecko">>
                                     ELSE preferred_arg[1]))

\* C25 for the calls that give an empty list: the default list is used.
C25_EmptyListIsDefaultList ==
    (Suggested /\ preferred_arg = Some(<<>>)) =>
        SuggestionFor(PreferredUnder(<<"manual", "cryptorank", "coingecko">>))

\* An empty preference list is given for 15 (cryptorank), 22 (coingecko) and
\* 18 (dropstab): dropstab is closest to the mean and cryptorank is preferred.
C25_EmptyListReached ==
    /\ Suggested
    /\ preferred_arg = Some(<<>>)
    /\ conflict_arg[1].sources_involved = <<"cryptorank", "coingecko", "dropstab">>
    /\ ClosestInvolved = "dropstab"
    /\ suggestion[1].preferred_source = Some("cryptorank")

\* None of the listed sources is involved and the third involved source is
\* closest to the mean.
C25_ClosestReached ==
    /\ Suggested
    /\ preferred_arg = Some(<<"messari", "tokenomist">>)
    /\ conflict_arg[1].sources_involved = <<"cryptorank", "coingecko", "dropstab">>
    /\ suggestion[1].preferred_source = Some("dropstab")

\* None of the listed sources is involved and two involved sources are
\* equally far from the mean: the earlier one is preferred.
C25_TieReached ==
    /\ Suggested
    /\ preferred_arg = Some(<<"messari", "tokenomist">>)
    /\ Len(conflict_arg[1].sources_involved) = 2
    /\ FromMean(1) = FromMean(2)
    /\ suggestion[1].preferred_source = Some(conflict_arg[1].sources_involved[1])

\* The second source of a given list is the first that is involved, and it
\* is not the first involved source.
C25_ListOrderReached ==
    /\ Suggested
    /\ preferred_arg = Some(<<"coingecko", "cryptorank">>)
    /\ conflict_arg[1].sources_involved[1] = "cryptorank"
    /\ "coingecko" \in InvolvedSet(conflict_arg[1])
    /\ suggestion[1].preferred_source = Some("coingecko")

\* ---------------------------------------------------------------------------
\* Properties of VestingParser.parse_dict
\* ---------------------------------------------------------------------------

\* parse_dict has returned for vest_data.
Parsed == vest_op = "parse_dict"

\* The positions of the aliases of a field that are keys of the dictionary.
PresentIn(aliases) ==
    {i \in 1..Len(aliases) : vest_data # None /\ aliases[i] \in DOMAIN vest_data[1]}

\* The value of the first alias that is present, None when none is.
FirstPresent(aliases) ==
    IF PresentIn(aliases) = {} THEN None
    ELSE Some(vest_data[1][aliases[CHOOSE i \in PresentIn(aliases) :
                                       \A j \in PresentIn(aliases) : i <= j]])

\* The numeric and free-text fields of the terms are read from the first
\* alias present.
ReadFromFirstPresent(terms) ==
    /\ terms.tge_unlock_pct = FirstPresent(TgeAliases)
    /\ terms.cliff_months = FirstPresent(CliffAliases)
    /\ terms.vesting_months = FirstPresent(VestingAliases)
    /\ terms.unlock_frequency = FirstPresent(FrequencyAliases)
    /\ terms.raw_description = FirstPresent(DescriptionAliases)
    /\ terms.schedule_type = ScheduleTypeOf(FirstPresent(ScheduleAliases))

\* C26: parse_dict reads each field from its aliases in their fixed order and
\* takes the first alias present in the dictionary, also when that alias
\* holds 0; a dictionary that holds a TGE unlock, be it 0, yields a terms
\* object.
C26_FirstPresentAlias ==
    Parsed =>
        /\ vest_terms # None => ReadFromFirstPresent(vest_terms[1])
        /\ PresentIn(TgeAliases) # {} => vest_terms # None

\* Every value of the dictionary is truthy: neither 0 nor the empty string.
AllTruthy ==
    /\ vest_data # None
    /\ \A key \in DOMAIN vest_data[1] :
          LET numeric == \E i \in 1..Len(TgeAliases \o CliffAliases \o VestingAliases) :
                             (TgeAliases \o CliffAliases \o VestingAliases)[i] = key
          IN  Truthy(IF numeric THEN "number" ELSE "text", Some(vest_data[1][key]))

\* C26 for the dictionaries without a 0 and without an empty string.
C26_FirstPresentAliasWhenTruthy ==
    (Parsed /\ AllTruthy) =>
        /\ vest_terms # None => ReadFromFirstPresent(vest_terms[1])
        /\ PresentIn(TgeAliases) # {} => vest_terms # None

\* The first alias present holds 0 and a later alias is taken.
C26_ZeroSkippedReached ==
    /\ Parsed
    /\ vest_data = Some(("tge_unlock_pct" :> 0) @@ ("tge" :> 15))
    /\ vest_terms # None
    /\ vest_terms[1].tge_unlock_pct = Some(15)

\* The only field is a TGE unlock of 0 and no terms object is returned.
C26_ZeroOnlyReached ==
    /\ Parsed
    /\ vest_data = Some(("tge_unlock_pct" :> 0))
    /\ vest_terms = None

\* Two aliases of a field are present with values other than 0 and the one
\* earlier in the order is taken.
C26_PriorityReached ==
    /\ Parsed /\ AllTruthy
    /\ Cardinality(PresentIn(TgeAliases)) = 2
    /\ "tge" \in DOMAIN vest_data[1]
    /\ vest_terms # None
    /\ vest_terms[1].tge_unlock_pct = FirstPresent(TgeAliases)
    /\ vest_terms[1].tge_unlock_pct # Some(vest_data[1]["tge"])

(***************************************************************************)
(* Properties of PriceSelector.select: the timestamp of the chosen listing. *)
(***************************************************************************)
\* A surviving listing that is later than s yet inside the one-hour window
\* and on a more reliable venue.
LaterMoreReliable(s) ==
    \E i \in Indices(Survivors) :
        /\ TimestampOf(Survivors[i]) > TimestampOf(s)
        /\ TimestampOf(Survivors[i]) <= EarliestOf(Survivors) + OneHour
        /\ _get_exchange_reliability(Survivors[i].exchange)
               > _get_exchange_reliability(s.exchange)

\* C27: the listing chosen by select carries the minimum candle timestamp among
\* the listings that survive outlier filtering; stablecoin preference and
\* venue reliability decide only between listings of equal timestamp, so a
\* later listing inside the one-hour window never wins over an earlier one.
C27_SelectedIsEarliest ==
    (op = "select" /\ result # None) =>
        /\ result[1].timestamp = EarliestOf(Survivors)
        /\ \E i \in Indices(Survivors) :
              /\ IsSourceOf(Survivors[i], result[1])
              /\ \A j \in Indices(Survivors) :
                    StrictlyBetter(Survivors[j], Survivors[i])
                        => TimestampOf(Survivors[j]) = TimestampOf(Survivors[i])

\* An earlier listing is selected although a later one inside the window sits
\* on a more reliable venue.
C27_Witness ==
    /\ op = "select"
    /\ result # None
    /\ \E i \in Indices(Survivors) :
          /\ IsSourceOf(Survivors[i], result[1])
          /\ LaterMoreReliable(Survivors[i])

(***************************************************************************)
(* Properties of calculate_with_manual_override: the FDV under a manual     *)
(* total supply.                                                            *)
(***************************************************************************)
\* The FDV the override call returns for the inputs held when the manual
\* total supply is mt.
FDVUnder(mt) ==
    calculate_with_manual_override(reference_price, supply_data[1], fundraising_data,
                                   manual[1].manual_circulating_supply, mt).initial_fdv

\* C29 as stated: a manual total supply changes the FDV only when max_supply
\* is absent (null): if the supply data has a max_supply, the FDV is
\* max_supply x price for every value of manual_total_supply, and a
\* manual_total_supply of 0 leaves the original total_supply in use.
C29_ManualTotalOnlyWithoutMax ==
    Overridden =>
        LET sd == supply_data[1]
            mt == manual[1].manual_total_supply
        IN  /\ sd.max_supply # None =>
                  \A other \in ManualTotal :
                      FDVUnder(other) = Some(sd.max_supply[1] * reference_price)
            /\ mt = Some(0) => valuation[1].initial_fdv = FDVUnder(None)

\* C29 amended: if max_supply is neither null nor zero, the FDV is
\* max_supply x price (null when the price is zero) for every value of
\* manual_total_supply; if max_supply is null or zero, a manual total supply
\* that is not zero gives the FDV manual_total_supply x price; a
\* manual_total_supply of 0 leaves the original total_supply in use, so the
\* FDV is the one obtained without a manual total supply.
C29_ManualTotalOnlyWithoutGivenMax ==
    Overridden =>
        LET sd == supply_data[1]
            mt == manual[1].manual_total_supply
            v == valuation[1]
        IN  /\ Given(sd.max_supply) =>
                  /\ FDVOutcome(v, sd.max_supply, reference_price # 0)
                  /\ \A other \in ManualTotal : FDVUnder(other) = v.initial_fdv
            /\ (~Given(sd.max_supply) /\ Given(mt)) =>
                  FDVOutcome(v, mt, reference_price # 0)
            /\ mt = Some(0) =>
                  /\ v.initial_fdv = FDVUnder(None)
                  /\ FDVOutcome(v, IF Given(sd.max_supply) THEN sd.max_supply
                                   ELSE IF Given(sd.total_supply) THEN sd.total_supply
                                   ELSE None,
                                reference_price # 0)

\* A manual total supply differing from max_supply and from total_supply was
\* given, and the FDV is max_supply x price.
C29_Witness ==
    /\ Overridden
    /\ Given(supply_data[1].max_supply)
    /\ Given(manual[1].manual_total_supply)
    /\ manual[1].manual_total_supply # supply_data[1].max_supply
    /\ manual[1].manual_total_supply # supply_data[1].total_supply
    /\ reference_price # 0
    /\ valuation[1].initial_fdv = Some(supply_data[1].max_supply[1] * reference_price)

\* max_supply is 0 and the manual total supply sets the FDV.
C29_ZeroMaxReached ==
    /\ Overridden
    /\ supply_data[1].max_supply = Some(0)
    /\ Given(manual[1].manual_total_supply)
    /\ reference_price # 0
    /\ valuation[1].initial_fdv
          = Some(manual[1].manual_total_supply[1] * reference_price)

\* A manual total supply of 0 left the original total_supply in use.
C29_ZeroManualReached ==
    /\ Overridden
    /\ manual[1].manual_total_supply = Some(0)
    /\ supply_data[1].max_supply = None
    /\ Given(supply_data[1].total_supply)
    /\ reference_price # 0
    /\ valuation[1].initial_fdv
          = Some(supply_data[1].total_supply[1] * reference_price)

(***************************************************************************)
(* Properties of TokenListingOrchestrator.analyze and analyze_batch.       *)
(***************************************************************************)
\* The providers' trails of an orchestrator that has made no call yet.
NoTrails == [p \in DOMAIN provider_audit_entries |-> <<>>]

\* Every entry of the result was recorded during the call that built it.
RecordedDuringItsCall(r) ==
    \A k \in 1..Len(r.audit_trail) : r.audit_trail[k].timestamp = r.token

\* analyze has just returned a result, which analyze_batch appended.
Analyzed == orch_op = "analyzed" /\ results # <<>>

LastResult == results[Len(results)]

\* C30: for any sequence of analyze calls issued by analyze_batch (a failed
\* token is skipped), the audit_trail and the quality_flags of each returned
\* result hold only what was recorded during that call: they are those of the
\* same call made by an orchestrator without earlier calls, and no entry
\* recorded during an earlier call appears in a later call's result.
C30_ResultsHoldOnlyTheirOwnCall ==
    /\ \A i \in 1..Len(results) : RecordedDuringItsCall(results[i])
    /\ Analyzed =>
          LET alone == analyze(NoTrails, responses[1], calls).result[1]
          IN  /\ LastResult.audit_trail = alone.audit_trail
              /\ LastResult.quality_flags = alone.quality_flags

\* The quality flags of each result are those of its own call.
C30_QualityFlagsOfOwnCall ==
    Analyzed =>
        LastResult.quality_flags
            = analyze(NoTrails, responses[1], calls).result[1].quality_flags

\* A result is followed by empty provider trails, so an entry of an earlier
\* call can only be left behind by a call that raised.
C30_TrailsEmptyAfterResult ==
    orch_op = "analyzed" => provider_audit_entries = NoTrails

\* The entries the orchestrator itself records are those of the current call.
C30_OwnEntriesOfOwnCall ==
    \A k \in 1..Len(_audit_entries) :
        (_audit_entries[k].action # "fetch") => _audit_entries[k].timestamp = calls

\* The first call raised after a provider had recorded an entry, and the
\* result of the second call holds that entry.
C30_StaleEntryReached ==
    /\ Analyzed
    /\ calls = 2
    /\ Len(results) = 1
    /\ \E k \in 1..Len(LastResult.audit_trail) :
          /\ LastResult.audit_trail[k].timestamp = 1
          /\ LastResult.audit_trail[k].source = "ccxt"

\* A call that raised is followed by a call whose result holds only its own
\* entries: the first call failed to resolve its token.
C30_CleanAfterResolveFailureReached ==
    /\ Analyzed
    /\ calls = 2
    /\ Len(results) = 1
    /\ RecordedDuringItsCall(LastResult)
    /\ Len(LastResult.audit_trail) > 1

====
